---------------------------- MODULE Spec2Model ----------------------------
(***************************************************************************)
(* KhoHo: the sparse-matrix library (sparmat.c, sparmat-U.c) and the       *)
(* chain-complex reducer built on it (sparreduce-U.c).                     *)
(*                                                                         *)
(* A sparse vector is a record [num_entries, entries]; entries is the      *)
(* linked list as a sequence of [index, value] records in list order.      *)
(* A matrix is [num_rows, num_cols, rows, columns].  The two coefficient   *)
(* rings are told apart by the variable ring: "Z" is sparmat.c (values are *)
(* machine integers), "U" is sparmat-U.c (values are pairs <<a, b>>        *)
(* standing for a + b*t in Z[t]/(t^2 = 1)).                                *)
(*                                                                         *)
(* Machine integers are INT_BITS wide and wrap around (two's complement),  *)
(* which is what the Makefile's gcc build produces for the signed          *)
(* arithmetic of add_m_colrows; INT_BITS is scaled down from 32.           *)
(***************************************************************************)
EXTENDS Integers, Sequences, FiniteSets, TLC

VARIABLES
    ring,       \* the coefficient ring the library is built for
    abs_min,    \* what the build makes of abs(INT_MIN)
    matr,       \* the SparseMatrix of the library's caller
    last,       \* the latest call and what it returned
    failed,     \* some call so far reported failure
    nops,       \* number of calls so far
    complex,    \* the chain complex the host hands to reduce_s_complex_U
    args,       \* c_size, c_ranks, d_matrices, matr_lengths as passed
    cplx_size, first_group, last_group,
    cplx_matrices, cplx_group_ranks, num_generators,
    pc,         \* where reduce_s_complex_U is
    group, do_short,    \* the eliminate_gens call in progress or next
    gen, isfound,       \* its loop variable and its result so far
    ERR_MESSAGE,        \* the message bailout() hands to pari_err
    answer      \* what reduce_s_complex_U returned

mvars == <<matr, last, failed, nops>>

rvars == <<complex, args, cplx_size, first_group, last_group, cplx_matrices,
           cplx_group_ranks, num_generators, pc, group, do_short, gen,
           isfound, ERR_MESSAGE, answer>>

vars == <<ring, abs_min, mvars, rvars>>

(***************************************************************************)
(* Bounds of the model.                                                    *)
(***************************************************************************)
INT_BITS == 5
MaxOps == 3

(***************************************************************************)
(* Machine integers.                                                       *)
(***************************************************************************)
INT_MAX == 2^(INT_BITS - 1) - 1
INT_MIN == -INT_MAX - 1
ENTRY_MAX == INT_MAX \div 2
ERR_MVAL == INT_MAX

\* the value an INT_BITS-wide signed register holds for the exact result x
Wrap(x) == ((x - INT_MIN) % (2^INT_BITS)) + INT_MIN

\* abs() of <stdlib.h>.  abs(INT_MIN) is undefined: the negation in the
\* register gives INT_MIN again, a compiler that folds abs into the
\* comparison that follows treats it as 2^(INT_BITS-1); abs_min is the one
\* this build produces.
AbsMinOutcomes == {INT_MIN, -INT_MIN}

abs(x) == IF x = INT_MIN THEN abs_min ELSE IF x < 0 THEN -x ELSE x

(***************************************************************************)
(* Coefficient algebra of Z[t]/(t^2 = 1)  (sparmat-U.c).                   *)
(***************************************************************************)
Uzero == <<0, 0>>

are_Uvals_equal(val1, val2) == (val1[1] = val2[1]) /\ (val1[2] = val2[2])

is_Uval_zero(val) == are_Uvals_equal(val, Uzero)

add_Uvals(val1, val2) == <<Wrap(val1[1] + val2[1]), Wrap(val1[2] + val2[2])>>

\* mult_Uvals multiplying component by component, as add_Uvals adds
mult_Uvals_componentwise(val1, val2) ==
    <<Wrap(val1[1] * val2[1]), Wrap(val1[2] * val2[2])>>

mult_Uvals(val1, val2) ==
    <<Wrap(Wrap(val1[1] * val2[1]) + Wrap(val1[2] * val2[2])),
      Wrap(Wrap(val1[1] * val2[2]) + Wrap(val1[2] * val2[1]))>>

\* magnitude((a,b)) = max(|a|,|b|): ABSFUNC of sparmat-U.h
Uabs(val) ==
    IF abs(val[1]) > abs(val[2]) THEN abs(val[1]) ELSE abs(val[2])

(***************************************************************************)
(* The value contract both libraries are written against.                  *)
(***************************************************************************)
SM_zero == IF ring = "Z" THEN 0 ELSE Uzero

is_zero(val) == IF ring = "Z" THEN val = 0 ELSE is_Uval_zero(val)

vals_equal(val1, val2) ==
    IF ring = "Z" THEN val1 = val2 ELSE are_Uvals_equal(val1, val2)

val_add(val1, val2) ==
    IF ring = "Z" THEN Wrap(val1 + val2) ELSE add_Uvals(val1, val2)

val_mult(val1, val2) ==
    IF ring = "Z" THEN Wrap(val1 * val2) ELSE mult_Uvals(val1, val2)

ABSFUNC(val) == IF ring = "Z" THEN abs(val) ELSE Uabs(val)

(***************************************************************************)
(* Linked lists as sequences.                                              *)
(***************************************************************************)
RemoveAt(s, p) == SubSeq(s, 1, p - 1) \o SubSeq(s, p + 1, Len(s))

InsertAt(s, p, e) == SubSeq(s, 1, p - 1) \o <<e>> \o SubSeq(s, p, Len(s))

\* for (eptr = vec->entries; eptr != NULL; ...) if (eptr->index >= ind) break;
\* the position the loop stops at, Len + 1 standing for NULL
RECURSIVE FindPos(_, _, _)
FindPos(entries, ind, p) ==
    IF p > Len(entries) THEN p
    ELSE IF entries[p].index >= ind THEN p
    ELSE FindPos(entries, ind, p + 1)

EmptyVector == [num_entries |-> 0, entries |-> <<>>]

(***************************************************************************)
(* Sparse vectors.                                                         *)
(***************************************************************************)
\* get_v_entry that looks at the head of the list only
get_v_entry_head_only(vec, ind) ==
    IF vec.entries # <<>> /\ vec.entries[1].index = ind
    THEN vec.entries[1].value
    ELSE SM_zero

get_v_entry(vec, ind) ==
    LET p == FindPos(vec.entries, ind, 1)
    IN  IF p <= Len(vec.entries) /\ vec.entries[p].index = ind
        THEN vec.entries[p].value
        ELSE SM_zero

RECURSIVE FindUnitFrom(_, _)
FindUnitFrom(entries, p) ==
    IF p > Len(entries) THEN [ret |-> 0, val |-> SM_zero]
    ELSE IF ABSFUNC(entries[p].value) = 1
         THEN [ret |-> entries[p].index, val |-> entries[p].value]
         ELSE FindUnitFrom(entries, p + 1)

\* find_v_unit that keeps searching and reports the last entry that passes
find_v_unit_last(vec) ==
    IF vec.num_entries = -1 THEN [ret |-> -1, val |-> SM_zero]
    ELSE LET hits == {p \in 1..Len(vec.entries) :
                         ABSFUNC(vec.entries[p].value) = 1}
         IN  IF hits = {} THEN [ret |-> 0, val |-> SM_zero]
             ELSE LET p == CHOOSE q \in hits : \A o \in hits : o <= q
                  IN  [ret |-> vec.entries[p].index,
                       val |-> vec.entries[p].value]

find_v_unit(vec) ==
    IF vec.num_entries = -1 THEN [ret |-> -1, val |-> SM_zero]
    ELSE FindUnitFrom(vec.entries, 1)

\* remove_v_entry that unlinks the entry without counting it
remove_v_entry_keeps_count(vec, ind) ==
    IF vec.num_entries = -1
    THEN [ret |-> -1, val |-> IF ring = "Z" THEN ERR_MVAL ELSE Uzero, vec |-> vec]
    ELSE LET p == FindPos(vec.entries, ind, 1)
         IN  IF p <= Len(vec.entries) /\ vec.entries[p].index = ind
             THEN [ret |-> IF ring = "Z" /\ vec.entries[p].value = ERR_MVAL
                           THEN -1 ELSE 0,
                   val |-> vec.entries[p].value,
                   vec |-> [num_entries |-> vec.num_entries,
                            entries |-> RemoveAt(vec.entries, p)]]
             ELSE [ret |-> 0, val |-> SM_zero, vec |-> vec]

\* [ret, val, vec]: the status, the value removed, the vector afterwards.
\* sparmat.c returns the value alone and ERR_MVAL for a deleted vector, so
\* there the status is read off the value as its callers do.
remove_v_entry(vec, ind) ==
    IF vec.num_entries = -1
    THEN [ret |-> -1, val |-> IF ring = "Z" THEN ERR_MVAL ELSE Uzero, vec |-> vec]
    ELSE LET p == FindPos(vec.entries, ind, 1)
         IN  IF p <= Len(vec.entries) /\ vec.entries[p].index = ind
             THEN [ret |-> IF ring = "Z" /\ vec.entries[p].value = ERR_MVAL
                           THEN -1 ELSE 0,
                   val |-> vec.entries[p].value,
                   vec |-> [num_entries |-> vec.num_entries - 1,
                            entries |-> RemoveAt(vec.entries, p)]]
             ELSE [ret |-> 0, val |-> SM_zero, vec |-> vec]

\* add_v_entry without the num_entries++ of a new entry
add_v_entry_keeps_count(vec, ind, val) ==
    IF vec.num_entries = -1 THEN [ret |-> -1, vec |-> vec]
    ELSE IF is_zero(val) THEN [ret |-> 0, vec |-> remove_v_entry(vec, ind).vec]
    ELSE LET p == FindPos(vec.entries, ind, 1)
         IN  IF p <= Len(vec.entries) /\ vec.entries[p].index = ind
             THEN [ret |-> 0,
                   vec |-> [vec EXCEPT !.entries[p].value = val]]
             ELSE [ret |-> 0,
                   vec |-> [vec EXCEPT !.entries =
                               InsertAt(vec.entries, p,
                                        [index |-> ind, value |-> val])]]

\* [ret, vec]
add_v_entry(vec, ind, val) ==
    IF vec.num_entries = -1 THEN [ret |-> -1, vec |-> vec]
    ELSE IF is_zero(val) THEN [ret |-> 0, vec |-> remove_v_entry(vec, ind).vec]
    ELSE LET p == FindPos(vec.entries, ind, 1)
         IN  IF p <= Len(vec.entries) /\ vec.entries[p].index = ind
             THEN [ret |-> 0,
                   vec |-> [vec EXCEPT !.entries[p].value = val]]
             ELSE [ret |-> 0,
                   vec |-> [num_entries |-> vec.num_entries + 1,
                            entries |-> InsertAt(vec.entries, p,
                                          [index |-> ind, value |-> val])]]

(***************************************************************************)
(* Sparse matrices.                                                        *)
(***************************************************************************)
check_m_indices(m, row, col) ==
    IF row < 1 \/ row > m.num_rows \/ col < 1 \/ col > m.num_cols
    THEN -1 ELSE 0

\* get_m_entry refusing a deleted row or column, as remove_m_entry does
get_m_entry_checks_deleted(m, row, col) ==
    IF check_m_indices(m, row, col) = -1
    THEN [ret |-> -1, val |-> SM_zero]
    ELSE IF m.rows[row].num_entries = -1 \/ m.columns[col].num_entries = -1
    THEN [ret |-> -1, val |-> SM_zero]
    ELSE LET valr == get_v_entry(m.rows[row], col)
             valc == get_v_entry(m.columns[col], row)
         IN  IF ~vals_equal(valr, valc)
             THEN [ret |-> -1, val |-> SM_zero]
             ELSE [ret |-> IF ring = "Z" /\ valr = ERR_MVAL THEN -1 ELSE 0,
                   val |-> valr]

\* [ret, val]: ret = -1 stands for the ERR_MVAL (sparmat.c) or NULL
\* (sparmat-U.c) the call returns
get_m_entry(m, row, col) ==
    IF check_m_indices(m, row, col) = -1
    THEN [ret |-> -1, val |-> SM_zero]
    ELSE LET valr == get_v_entry(m.rows[row], col)
             valc == get_v_entry(m.columns[col], row)
         IN  IF ~vals_equal(valr, valc)
             THEN [ret |-> -1, val |-> SM_zero]
             ELSE [ret |-> IF ring = "Z" /\ valr = ERR_MVAL THEN -1 ELSE 0,
                   val |-> valr]

\* [ret, val, matr]
remove_m_entry(m, row, col) ==
    IF check_m_indices(m, row, col) = -1
    THEN [ret |-> -1, val |-> SM_zero, matr |-> m]
    ELSE LET rr == remove_v_entry(m.rows[row], col)
             m1 == [m EXCEPT !.rows[row] = rr.vec]
         IN  IF rr.ret = -1 THEN [ret |-> -1, val |-> SM_zero, matr |-> m1]
             ELSE LET rc == remove_v_entry(m1.columns[col], row)
                      m2 == [m1 EXCEPT !.columns[col] = rc.vec]
                  IN  IF rc.ret = -1
                      THEN [ret |-> -1, val |-> SM_zero, matr |-> m2]
                      ELSE IF ~vals_equal(rr.val, rc.val)
                      THEN [ret |-> -1, val |-> SM_zero, matr |-> m2]
                      ELSE [ret |-> 0, val |-> rr.val, matr |-> m2]

\* the admissibility test of add_m_entry: sparmat.c compares the value with
\* +-ENTRY_MAX, sparmat-U.c its ABSFUNC
is_too_big(val) ==
    IF ring = "Z" THEN val > ENTRY_MAX \/ val < -ENTRY_MAX
    ELSE ABSFUNC(val) > ENTRY_MAX

\* add_m_entry without the second add_v_entry, the one into the column
add_m_entry_row_only(m, row, col, val) ==
    IF check_m_indices(m, row, col) = -1 THEN [ret |-> -1, matr |-> m]
    ELSE IF is_too_big(val) THEN [ret |-> -1, matr |-> m]
    ELSE IF is_zero(val)
         THEN LET rm == remove_m_entry(m, row, col)
              IN  [ret |-> rm.ret, matr |-> rm.matr]
    ELSE LET ar == add_v_entry(m.rows[row], col, val)
         IN  IF ar.ret = -1 THEN [ret |-> -1, matr |-> m]
             ELSE [ret |-> 0, matr |-> [m EXCEPT !.rows[row] = ar.vec]]

\* [ret, matr]
add_m_entry(m, row, col, val) ==
    IF check_m_indices(m, row, col) = -1 THEN [ret |-> -1, matr |-> m]
    ELSE IF is_too_big(val) THEN [ret |-> -1, matr |-> m]
    ELSE IF is_zero(val)
         THEN LET rm == remove_m_entry(m, row, col)
              IN  [ret |-> rm.ret, matr |-> rm.matr]
    ELSE LET ar == add_v_entry(m.rows[row], col, val)
         IN  IF ar.ret = -1 THEN [ret |-> -1, matr |-> m]
             ELSE LET m1 == [m EXCEPT !.rows[row] = ar.vec]
                      ac == add_v_entry(m1.columns[col], row, val)
                  IN  [ret |-> ac.ret,
                       matr |-> [m1 EXCEPT !.columns[col] = ac.vec]]

\* the while loop of erase_m_colrow: [ret, vec, others]
RECURSIVE EraseLoop(_, _, _)
EraseLoop(cr_vec, cr_ind, others) ==
    IF cr_vec.entries = <<>> THEN [ret |-> 0, vec |-> cr_vec, others |-> others]
    ELSE LET eptr == Head(cr_vec.entries)
             rv == remove_v_entry(others[eptr.index], cr_ind)
             oth == [others EXCEPT ![eptr.index] = rv.vec]
         IN  IF rv.ret = -1
             THEN [ret |-> -1, vec |-> cr_vec, others |-> oth]
             ELSE IF ~vals_equal(rv.val, eptr.value)
             THEN [ret |-> -1, vec |-> cr_vec, others |-> oth]
             ELSE EraseLoop([num_entries |-> cr_vec.num_entries - 1,
                             entries |-> Tail(cr_vec.entries)], cr_ind, oth)

\* erase_m_colrow without the "already deleted" test, SPARMAT_DEBUG off
erase_m_colrow_unchecked(cr_vec, cr_ind, others, do_del) ==
    LET lp == EraseLoop(cr_vec, cr_ind, others)
    IN  IF lp.ret = -1 THEN lp
        ELSE [ret |-> 0,
              vec |-> IF do_del THEN [lp.vec EXCEPT !.num_entries = -1]
                      ELSE lp.vec,
              others |-> lp.others]

\* [ret, vec, others]
erase_m_colrow(cr_vec, cr_ind, others, do_del) ==
    IF cr_vec.num_entries = -1
    THEN [ret |-> -1, vec |-> cr_vec, others |-> others]
    ELSE LET lp == EraseLoop(cr_vec, cr_ind, others)
         IN  IF lp.ret = -1 THEN lp
             ELSE IF lp.vec.num_entries # 0
             THEN [ret |-> -1, vec |-> lp.vec, others |-> lp.others]
             ELSE [ret |-> 0,
                   vec |-> IF do_del THEN [lp.vec EXCEPT !.num_entries = -1]
                           ELSE lp.vec,
                   others |-> lp.others]

\* erase_m_row that leaves the columns as they were
erase_m_row_keeps_columns(m, row, do_del) ==
    IF check_m_indices(m, row, 1) = -1 THEN [ret |-> -1, matr |-> m]
    ELSE LET e == erase_m_colrow(m.rows[row], row, m.columns, do_del)
         IN  [ret |-> e.ret, matr |-> [m EXCEPT !.rows[row] = e.vec]]

\* [ret, matr]
erase_m_row(m, row, do_del) ==
    IF check_m_indices(m, row, 1) = -1 THEN [ret |-> -1, matr |-> m]
    ELSE LET e == erase_m_colrow(m.rows[row], row, m.columns, do_del)
         IN  [ret |-> e.ret,
              matr |-> [m EXCEPT !.rows[row] = e.vec, !.columns = e.others]]

erase_m_column(m, col, do_del) ==
    IF check_m_indices(m, 1, col) = -1 THEN [ret |-> -1, matr |-> m]
    ELSE LET e == erase_m_colrow(m.columns[col], col, m.rows, do_del)
         IN  [ret |-> e.ret,
              matr |-> [m EXCEPT !.columns[col] = e.vec, !.rows = e.others]]

\* the while loop of add_m_colrows: [ret, vec, others].
\* vec1 is cr_vec1 so far and p1 the position of eptr1 in it (prev is the
\* entry before it); p2 is the position of eptr2, in entries2 or, when both
\* operands are the same vector (alias), in vec1 itself.
RECURSIVE MergeLoop(_, _, _, _, _, _, _, _, _)
MergeLoop(vec1, p1, entries2, p2, alias, cr_ind1, others, scalar, maxval) ==
    LET list2 == IF alias THEN vec1.entries ELSE entries2
    IN  IF p2 > Len(list2)
        THEN [ret |-> maxval, vec |-> vec1, others |-> others]
        ELSE IF p1 <= Len(vec1.entries)
                /\ vec1.entries[p1].index < list2[p2].index
        THEN MergeLoop(vec1, p1 + 1, entries2, p2, alias, cr_ind1, others,
                       scalar, maxval)
        ELSE
        LET unmatched == p1 > Len(vec1.entries)
                         \/ vec1.entries[p1].index > list2[p2].index
            prod == val_mult(scalar, list2[p2].value)
            vec1a == IF unmatched
                     THEN [num_entries |-> vec1.num_entries + 1,
                           entries |-> InsertAt(vec1.entries, p1,
                                        [index |-> list2[p2].index,
                                         value |-> prod])]
                     ELSE [vec1 EXCEPT !.entries[p1].value = val_add(@, prod)]
            prev == vec1a.entries[p1]
            newmax == IF ABSFUNC(prev.value) > maxval
                      THEN ABSFUNC(prev.value) ELSE maxval
            p2a == IF alias /\ unmatched /\ p1 <= p2 THEN p2 + 2 ELSE p2 + 1
        IN  IF ABSFUNC(prev.value) > ENTRY_MAX
            THEN [ret |-> -1, vec |-> vec1a, others |-> others]
            ELSE
            LET av == add_v_entry(others[prev.index], cr_ind1, prev.value)
                oth == [others EXCEPT ![prev.index] = av.vec]
            IN  IF av.ret = -1
                THEN [ret |-> -1, vec |-> vec1a, others |-> others]
                ELSE IF is_zero(prev.value)
                THEN MergeLoop([num_entries |-> vec1a.num_entries - 1,
                                entries |-> RemoveAt(vec1a.entries, p1)],
                               p1, entries2,
                               IF alias /\ p2a > p1 THEN p2a - 1 ELSE p2a,
                               alias, cr_ind1, oth, scalar, newmax)
                ELSE MergeLoop(vec1a, p1 + 1, entries2, p2a, alias, cr_ind1,
                               oth, scalar, newmax)

\* add_m_colrows testing only its first operand for deletion
add_m_colrows_one_check(vecs, cr_ind1, cr_ind2, others, scalar) ==
    IF vecs[cr_ind1].num_entries = -1
    THEN [ret |-> -1, vec |-> vecs[cr_ind1], others |-> others]
    ELSE MergeLoop(vecs[cr_ind1], 1, vecs[cr_ind2].entries, 1,
                   cr_ind1 = cr_ind2, cr_ind1, others, scalar, 0)

\* [ret, vec, others]; vecs is the family both operands belong to
add_m_colrows(vecs, cr_ind1, cr_ind2, others, scalar) ==
    IF vecs[cr_ind1].num_entries = -1 \/ vecs[cr_ind2].num_entries = -1
    THEN [ret |-> -1, vec |-> vecs[cr_ind1], others |-> others]
    ELSE MergeLoop(vecs[cr_ind1], 1, vecs[cr_ind2].entries, 1,
                   cr_ind1 = cr_ind2, cr_ind1, others, scalar, 0)

\* [ret, matr]
add_m_rows(m, row1, row2, scalar) ==
    IF check_m_indices(m, row1, 1) = -1 THEN [ret |-> -1, matr |-> m]
    ELSE IF check_m_indices(m, row2, 1) = -1 THEN [ret |-> -1, matr |-> m]
    ELSE LET a == add_m_colrows(m.rows, row1, row2, m.columns, scalar)
         IN  [ret |-> a.ret,
              matr |-> [m EXCEPT !.rows[row1] = a.vec, !.columns = a.others]]

add_m_cols(m, col1, col2, scalar) ==
    IF check_m_indices(m, 1, col1) = -1 THEN [ret |-> -1, matr |-> m]
    ELSE IF check_m_indices(m, 1, col2) = -1 THEN [ret |-> -1, matr |-> m]
    ELSE LET a == add_m_colrows(m.columns, col1, col2, m.rows, scalar)
         IN  [ret |-> a.ret,
              matr |-> [m EXCEPT !.columns[col1] = a.vec, !.rows = a.others]]

\* the matrix cplx_matrices holds before init_s_matrix (malloc_arrays)
NullMatrix == [num_rows |-> 0, num_cols |-> 0, rows |-> <<>>, columns |-> <<>>]

\* init_s_matrix without the test of n_rows and n_cols
init_s_matrix_any_shape(m, n_rows, n_cols) ==
    [ret |-> 0,
     matr |-> [num_rows |-> n_rows, num_cols |-> n_cols,
               rows |-> [i \in 1..n_rows |-> EmptyVector],
               columns |-> [i \in 1..n_cols |-> EmptyVector]]]

\* [ret, matr]
init_s_matrix(m, n_rows, n_cols) ==
    IF n_rows < 1 \/ n_cols < 1 THEN [ret |-> -1, matr |-> m]
    ELSE [ret |-> 0,
          matr |-> [num_rows |-> n_rows, num_cols |-> n_cols,
                    rows |-> [i \in 1..n_rows |-> EmptyVector],
                    columns |-> [i \in 1..n_cols |-> EmptyVector]]]

(***************************************************************************)
(* The sparse-matrix library under an arbitrary caller: one matrix, made   *)
(* by init_s_matrix, and any sequence of at most MaxOps calls of the       *)
(* public functions of sparmat.h.  last records the latest call and what   *)
(* it returned; failed, whether some call so far has reported failure.     *)
(***************************************************************************)
Rings == {"Z", "U"}

\* the shapes init_s_matrix is called with
Shapes == {<<2, 2>>, <<1, 2>>}

\* the values and scalars the caller passes
HalfMax == (ENTRY_MAX + 1) \div 2

PutVals ==
    IF ring = "Z" THEN {0, 1, -1, HalfMax, ENTRY_MAX, ENTRY_MAX + 1}
    ELSE {<<0, 0>>, <<1, 0>>, <<0, -1>>, <<1, 1>>, <<ENTRY_MAX, 1>>,
          <<0, ENTRY_MAX + 1>>}

Scalars ==
    IF ring = "Z" THEN {0, 1, -1, 4}
    ELSE {<<0, 0>>, <<-1, 0>>, <<0, 1>>, <<1, -1>>}

\* the indices the caller passes
RowArgs == 1..matr.num_rows
ColArgs == 1..matr.num_cols

Call(op, i, j, val, del, ret, out) ==
    [op |-> op, i |-> i, j |-> j, val |-> val, del |-> del, ret |-> ret,
     out |-> out]

Returns(call, m) ==
    /\ nops < MaxOps
    /\ nops' = nops + 1
    /\ last' = call
    /\ matr' = m
    /\ failed' = (failed \/ call.ret = -1)
    /\ UNCHANGED <<ring, abs_min, rvars>>

Get(r, c) ==
    LET g == get_m_entry(matr, r, c)
    IN  Returns(Call("get", r, c, SM_zero, FALSE, g.ret, g.val), matr)

Put(r, c, v) ==
    LET a == add_m_entry(matr, r, c, v)
    IN  Returns(Call("put", r, c, v, FALSE, a.ret, SM_zero), a.matr)

Remove(r, c) ==
    LET d == remove_m_entry(matr, r, c)
    IN  Returns(Call("remove", r, c, SM_zero, FALSE, d.ret, d.val), d.matr)

EraseRow(r, do_del) ==
    LET e == erase_m_row(matr, r, do_del)
    IN  Returns(Call("erase_row", r, 0, SM_zero, do_del, e.ret, SM_zero),
                e.matr)

EraseCol(c, do_del) ==
    LET e == erase_m_column(matr, c, do_del)
    IN  Returns(Call("erase_col", 0, c, SM_zero, do_del, e.ret, SM_zero),
                e.matr)

AddRows(r1, r2, s) ==
    LET a == add_m_rows(matr, r1, r2, s)
    IN  Returns(Call("add_rows", r1, r2, s, FALSE, a.ret, SM_zero), a.matr)

AddCols(c1, c2, s) ==
    LET a == add_m_cols(matr, c1, c2, s)
    IN  Returns(Call("add_cols", c1, c2, s, FALSE, a.ret, SM_zero), a.matr)

FindUnitRow(r) ==
    LET f == find_v_unit(matr.rows[r])
    IN  Returns(Call("find_unit_row", r, 0, SM_zero, FALSE, f.ret, f.val),
                matr)

FindUnitCol(c) ==
    LET f == find_v_unit(matr.columns[c])
    IN  Returns(Call("find_unit_col", 0, c, SM_zero, FALSE, f.ret, f.val),
                matr)

\* the reducer's globals as the loader leaves them (sparreduce-U.c:53-60)
StaticGlobals ==
    /\ cplx_size = 0
    /\ first_group = 0
    /\ last_group = 0
    /\ cplx_matrices = <<>>
    /\ cplx_group_ranks = <<>>
    /\ num_generators = <<>>
    /\ group = 0
    /\ do_short = FALSE
    /\ gen = 0
    /\ isfound = FALSE
    /\ ERR_MESSAGE = ""
    /\ answer = <<>>

\* reduce_s_complex_U is not called
NoReduction ==
    /\ complex = <<>>
    /\ args = <<>>
    /\ pc = "off"
    /\ StaticGlobals

Init ==
    /\ ring \in Rings
    /\ abs_min \in AbsMinOutcomes
    /\ \E sh \in Shapes :
          /\ matr = init_s_matrix(NullMatrix, sh[1], sh[2]).matr
          /\ last = Call("init", sh[1], sh[2], SM_zero, FALSE, 0, SM_zero)
    /\ failed = FALSE
    /\ nops = 0
    /\ NoReduction

Next ==
    \/ \E r \in RowArgs, c \in ColArgs : Get(r, c)
    \/ \E r \in RowArgs, c \in ColArgs, v \in PutVals : Put(r, c, v)
    \/ \E r \in RowArgs, c \in ColArgs : Remove(r, c)
    \/ \E r \in RowArgs, d \in BOOLEAN : EraseRow(r, d)
    \/ \E c \in ColArgs, d \in BOOLEAN : EraseCol(c, d)
    \/ \E r1 \in RowArgs, r2 \in RowArgs, s \in Scalars : AddRows(r1, r2, s)
    \/ \E c1 \in ColArgs, c2 \in ColArgs, s \in Scalars : AddCols(c1, c2, s)
    \/ \E r \in 1..matr.num_rows : FindUnitRow(r)
    \/ \E c \in 1..matr.num_cols : FindUnitCol(c)

Spec == Init /\ [][Next]_vars

(***************************************************************************)
(* The same caller passing indices that may lie outside the matrix, and    *)
(* calling init_s_matrix with a shape that has no rows or no columns.      *)
(***************************************************************************)
\* the indices 0 and num + 1 next to the valid ones
WideRowArgs == 0..(matr.num_rows + 1)
WideColArgs == 0..(matr.num_cols + 1)

OutsideRows(r) == r < 1 \/ r > matr.num_rows
OutsideCols(c) == c < 1 \/ c > matr.num_cols

\* the shapes init_s_matrix refuses
BadShapes == {<<0, 0>>, <<0, 2>>, <<1, 0>>, <<-1, 1>>}

\* init_s_matrix called on the matrix with a refused shape
InitBadShape(n_rows, n_cols) ==
    LET i == init_s_matrix(matr, n_rows, n_cols)
    IN  Returns(Call("init", n_rows, n_cols, SM_zero, FALSE, i.ret, SM_zero),
                i.matr)

NextE ==
    \/ \E r \in RowArgs, c \in ColArgs, v \in PutVals : Put(r, c, v)
    \/ \E r \in WideRowArgs, c \in WideColArgs :
          (OutsideRows(r) \/ OutsideCols(c)) /\ Get(r, c)
    \/ \E r \in WideRowArgs, c \in WideColArgs, v \in PutVals :
          (OutsideRows(r) \/ OutsideCols(c)) /\ Put(r, c, v)
    \/ \E r \in WideRowArgs, c \in WideColArgs :
          (OutsideRows(r) \/ OutsideCols(c)) /\ Remove(r, c)
    \/ \E r \in WideRowArgs, d \in BOOLEAN : OutsideRows(r) /\ EraseRow(r, d)
    \/ \E c \in WideColArgs, d \in BOOLEAN : OutsideCols(c) /\ EraseCol(c, d)
    \/ \E r1 \in WideRowArgs, r2 \in WideRowArgs, s \in Scalars :
          (OutsideRows(r1) \/ OutsideRows(r2)) /\ AddRows(r1, r2, s)
    \/ \E c1 \in WideColArgs, c2 \in WideColArgs, s \in Scalars :
          (OutsideCols(c1) \/ OutsideCols(c2)) /\ AddCols(c1, c2, s)
    \/ \E sh \in BadShapes : InitBadShape(sh[1], sh[2])

SpecE == Init /\ [][NextE]_vars

(***************************************************************************)
(* The same caller destroying the matrix.  Every entry of a row list and   *)
(* of a column list is a block of its own, and so is each of the two       *)
(* arrays of vector roots.  kill_s_matrix leaves matr->rows and            *)
(* matr->columns pointing to the arrays it has freed.                      *)
(***************************************************************************)
\* a vector root in an array that has been freed: no count any vector of
\* a live array carries
FreedVector == [num_entries |-> -2, entries |-> <<>>]

\* vecs is an array that has been freed
IsFreed(vecs) == vecs # <<>> /\ vecs[1] = FreedVector

\* the free() calls of the loop of kill_s_matrix over vecs[from..]
RECURSIVE kill_s_vectors(_, _)
kill_s_vectors(vecs, from) ==
    IF from > Len(vecs) THEN 0
    ELSE Len(vecs[from].entries) + kill_s_vectors(vecs, from + 1)

\* [frees, matr]: the number of blocks handed to free() and the matrix
\* afterwards; matr->rows and matr->columns are NULL or valid
kill_s_matrix(m) ==
    [frees |-> (IF m.rows # <<>> THEN kill_s_vectors(m.rows, 1) + 1 ELSE 0)
               + (IF m.columns # <<>> THEN kill_s_vectors(m.columns, 1) + 1
                  ELSE 0),
     matr |-> [m EXCEPT !.rows = [k \in DOMAIN @ |-> FreedVector],
                        !.columns = [k \in DOMAIN @ |-> FreedVector]]]

\* kill_s_matrix on arrays that have been freed reads freed memory and
\* frees the arrays again: the process is aborted by the allocator, or the
\* two arrays are handed to free() a second time
KilledByAllocator == -2
FreedAgain == 2
DoubleFreeOutcomes == {KilledByAllocator, FreedAgain}

Destroy ==
    IF IsFreed(matr.rows)
    THEN \E outcome \in DoubleFreeOutcomes :
             Returns(Call("destroy", 0, 0, SM_zero, FALSE, outcome, SM_zero),
                     matr)
    ELSE LET Killed(k) ==
                 Returns(Call("destroy", 0, 0, SM_zero, FALSE, k.frees,
                              SM_zero), k.matr)
         IN  Killed(kill_s_matrix(matr))

\* a matrix as malloc_arrays leaves it, before init_s_matrix
InitK ==
    /\ ring \in Rings
    /\ abs_min \in AbsMinOutcomes
    /\ \/ \E sh \in Shapes :
             /\ matr = init_s_matrix(NullMatrix, sh[1], sh[2]).matr
             /\ last = Call("init", sh[1], sh[2], SM_zero, FALSE, 0, SM_zero)
       \/ /\ matr = NullMatrix
          /\ last = Call("malloc_arrays", 0, 0, SM_zero, FALSE, 0, SM_zero)
    /\ failed = FALSE
    /\ nops = 0
    /\ NoReduction

NextK ==
    \/ /\ ~IsFreed(matr.rows)
       /\ \E r \in RowArgs, c \in ColArgs, v \in PutVals : Put(r, c, v)
    \/ /\ ~IsFreed(matr.rows)
       /\ \E r \in RowArgs, d \in BOOLEAN : EraseRow(r, d)
    \/ Destroy

SpecK == InitK /\ [][NextK]_vars

(***************************************************************************)
(* The reducer (sparreduce-U.c), built on sparmat-U.c.                     *)
(*                                                                         *)
(* Groups and matrices are numbered from 0 as in the C arrays, so the      *)
(* arrays are functions on 0..cplx_size-1; cplx_matrices[k] is the         *)
(* differential from group k to group k+1, with one row per generator of   *)
(* group k+1 and one column per generator of group k.  The PARI vectors    *)
(* of the arguments and of the answer are numbered from 1.                 *)
(***************************************************************************)
\* the bit that separates row from column in a packed entry (32 in
\* assign_matrix, scaled down with INT_BITS)
ROW_SHIFT == 6

UnitVals == {<<1, 0>>, <<-1, 0>>, <<0, 1>>, <<0, -1>>}

InputVals == UnitVals \cup {Uzero}

\* the packed format of assign_matrix, LONG_IS_64BIT:
\* value * (row * 2^32 + column) with 2^31 added for a multiple of t
Pack(row, col, val) ==
    LET word == row * 2^ROW_SHIFT
                + (IF val[2] # 0 THEN 2^(ROW_SHIFT - 1) ELSE 0) + col
    IN  IF val[1] + val[2] < 0 THEN -word ELSE word

\* the cells of an r x c matrix, row by row
Cells(r, c) ==
    [k \in 1..(r * c) |-> <<((k - 1) \div c) + 1, ((k - 1) % c) + 1>>]

\* the t_VECSMALL the host builds for the dense matrix D
PackedList(D, r, c) ==
    LET nz == SelectSeq(Cells(r, c), LAMBDA rc : D[rc] # Uzero)
    IN  [k \in 1..Len(nz) |-> Pack(nz[k][1], nz[k][2], D[nz[k]])]

\* the arguments of reduce_s_complex_U for the complex c = [ranks, D],
\* D[k] the dense differential from group k-1 to group k
HostArgs(c) ==
    LET lists == [k \in 1..(Len(c.ranks) - 1) |->
                     PackedList(c.D[k], c.ranks[k + 1], c.ranks[k])]
    IN  [c_size |-> Len(c.ranks),
         c_ranks |-> c.ranks,
         d_matrices |-> lists,
         matr_lengths |-> [k \in DOMAIN lists |-> Len(lists[k])]]

\* exact arithmetic of Z[t]/(t^2 = 1), for the host's side and the properties
UPlus(x, y) == <<x[1] + y[1], x[2] + y[2]>>

UTimes(x, y) == <<x[1] * y[1] + x[2] * y[2], x[1] * y[2] + x[2] * y[1]>>

RECURSIVE USum(_, _)
USum(f, n) == IF n = 0 THEN Uzero ELSE UPlus(USum(f, n - 1), f[n])

\* the (i, j) cell of A * B, for dense A (r x n) and B (n x c)
UProduct(A, B, n, i, j) ==
    USum([m \in 1..n |-> UTimes(A[<<i, m>>], B[<<m, j>>])], n)

\* D[k+1] * D[k] = 0 for every k
SquareZero(c) ==
    \A k \in 1..(Len(c.ranks) - 2) :
        \A i \in 1..c.ranks[k + 2], j \in 1..c.ranks[k] :
            UProduct(c.D[k + 1], c.D[k], c.ranks[k + 1], i, j) = Uzero

\* the complexes reduce_s_complex_U is called with: three groups of at most
\* two generators each, every differential with entries 0, 1, -1, t, -t ...
RankVectors == {<<a, b, c>> : a \in 0..2, b \in 0..2, c \in 0..2}

DenseMatrices(r, c) == [(1..r) \X (1..c) -> InputVals]

\* the rows a differential after D0 (r1 x r0) can have: those with
\* row * D0 = 0
KernelRows(D0, r1, r0) ==
    {row \in [1..r1 -> InputVals] :
        \A j \in 1..r0 :
            USum([m \in 1..r1 |-> UTimes(row[m], D0[<<m, j>>])], r1) = Uzero}

SmallComplex(rk, D0, rows) ==
    [ranks |-> rk,
     D |-> <<D0, [rc \in (1..rk[3]) \X (1..rk[2]) |-> rows[rc[1]][rc[2]]]>>]

\* ... and one complex of ranks 7, 9, 3.  Group 0 is g, h1..h6; group 1 is
\* f1..f6, e1, e2, e3; d(g) = -f1 - ... - f6 - e2 + e3, d(hk) = fk + (a unit
\* multiple of e2 or e3), and the three generators of group 2 bound
\* e1 + e2 + e3, t e1 + e2 + t e3 and e1 - e2 - e3 up to multiples of the fk.
One == <<1, 0>>
MinusOne == <<-1, 0>>
Tee == <<0, 1>>
MinusTee == <<0, -1>>

WideD0 ==
    [rc \in (1..9) \X (1..7) |->
        CASE rc[1] <= 6 /\ rc[2] = 1 -> MinusOne
          [] rc[1] <= 6 /\ rc[2] = rc[1] + 1 -> One
          [] rc = <<8, 1>> -> MinusOne
          [] rc = <<8, 2>> -> MinusOne
          [] rc \in {<<8, 3>>, <<8, 4>>} -> MinusTee
          [] rc = <<9, 1>> -> One
          [] rc = <<9, 5>> -> One
          [] rc \in {<<9, 6>>, <<9, 7>>} -> Tee
          [] OTHER -> Uzero]

WideD1 ==
    [rc \in (1..3) \X (1..9) |->
        CASE rc \in {<<1, 1>>, <<2, 1>>, <<3, 4>>} -> One
          [] rc \in {<<1, 2>>, <<1, 3>>, <<2, 2>>, <<2, 3>>} -> Tee
          [] rc \in {<<3, 1>>, <<1, 4>>} -> MinusOne
          [] rc \in {<<3, 2>>, <<3, 3>>, <<1, 5>>, <<1, 6>>, <<2, 4>>} -> MinusTee
          [] rc \in {<<2, 5>>, <<2, 6>>} -> MinusOne
          [] rc \in {<<3, 5>>, <<3, 6>>} -> Tee
          [] rc \in {<<1, 7>>, <<1, 8>>, <<1, 9>>} -> One
          [] rc \in {<<2, 7>>, <<2, 9>>} -> Tee
          [] rc = <<2, 8>> -> One
          [] rc = <<3, 7>> -> One
          [] rc \in {<<3, 8>>, <<3, 9>>} -> MinusOne
          [] OTHER -> Uzero]

WideComplex == [ranks |-> <<7, 9, 3>>, D |-> <<WideD0, WideD1>>]

\* ... and one of ranks 3, 2, 0 with d(a) = x + t y, d(b) = x + y, d(c) = y
SkewD0 ==
    [rc \in (1..2) \X (1..3) |->
        CASE rc = <<1, 1>> -> One
          [] rc = <<1, 2>> -> One
          [] rc = <<1, 3>> -> Uzero
          [] rc = <<2, 1>> -> Tee
          [] rc = <<2, 2>> -> One
          [] rc = <<2, 3>> -> One]

SkewComplex == SmallComplex(<<3, 2, 0>>, SkewD0, <<>>)

\* ... and one of ranks 4, 3, 0 over the integers, with the differential
\*    1 -1  1 -1
\*    0  1  0 -1
\*    1  1 -1  0
OrderD0 ==
    [rc \in (1..3) \X (1..4) |->
        CASE rc \in {<<1, 1>>, <<1, 3>>, <<2, 2>>, <<3, 1>>, <<3, 2>>} -> One
          [] rc \in {<<1, 2>>, <<1, 4>>, <<2, 4>>, <<3, 3>>} -> MinusOne
          [] OTHER -> Uzero]

OrderComplex == SmallComplex(<<4, 3, 0>>, OrderD0, <<>>)

\* ... and the complex of ranks 2, 3, 1 over the integers with
\* D[0] = (1 0 / 0 1 / 0 0) and D[1] = (0 0 1)
S4D0 ==
    [rc \in (1..3) \X (1..2) |->
        IF rc \in {<<1, 1>>, <<2, 2>>} THEN One ELSE Uzero]

S4D1 == [rc \in (1..1) \X (1..3) |-> IF rc = <<1, 3>> THEN One ELSE Uzero]

S4Complex == [ranks |-> <<2, 3, 1>>, D |-> <<S4D0, S4D1>>]

\* arguments whose first list names a row the matrix does not have
OutOfRangeArgs(c) ==
    LET a == HostArgs(c)
        bad == Pack(c.ranks[2] + 1, 1, One)
    IN  [a EXCEPT !.d_matrices[1] = Append(@, bad),
                  !.matr_lengths[1] = @ + 1]


\* the for loop of assign_matrix from entry i on: [ok, matr]
RECURSIVE AssignLoop(_, _, _, _)
AssignLoop(m, entries_list, i, list_len) ==
    IF i > list_len THEN [ok |-> TRUE, matr |-> m]
    ELSE LET is_val_neg == entries_list[i] < 0
             tmp_val == IF is_val_neg THEN -entries_list[i] ELSE entries_list[i]
             is_odd_var == (tmp_val \div 2^(ROW_SHIFT - 1)) % 2 = 1
             row == tmp_val \div 2^ROW_SHIFT
             column == tmp_val % 2^(ROW_SHIFT - 1)
             unit == IF is_val_neg THEN -1 ELSE 1
             value == IF is_odd_var THEN <<0, unit>> ELSE <<unit, 0>>
             Added(a) ==
                 IF a.ret = -1 THEN [ok |-> FALSE, matr |-> a.matr]
                 ELSE AssignLoop(a.matr, entries_list, i + 1, list_len)
         IN  Added(add_m_entry(m, row, column, value))

assign_matrix(m, entries_list, list_len) ==
    AssignLoop(m, entries_list, 1, list_len)

\* [ok, mats]; ok = FALSE where the code calls bailout()
init_diff_matrix(mats, matrix) ==
    IF matrix < first_group \/ matrix >= last_group
    THEN [ok |-> TRUE, mats |-> mats]
    ELSE LET Assigned(a) ==
                 [ok |-> a.ok, mats |-> [mats EXCEPT ![matrix] = a.matr]]
             Allocated(i) ==
                 IF i.ret = -1 THEN [ok |-> FALSE, mats |-> mats]
                 ELSE Assigned(assign_matrix(i.matr,
                                             args.d_matrices[matrix + 1],
                                             args.matr_lengths[matrix + 1]))
         IN  Allocated(init_s_matrix(mats[matrix],
                                     cplx_group_ranks[matrix + 1],
                                     cplx_group_ranks[matrix]))

\* LazyInit without the third test, the one for the matrix out of group
LazyInit_two_matrices(mats) ==
    LET Second(a) ==
            IF ~a.ok THEN a
            ELSE IF group > first_group /\ a.mats[group - 1].rows = <<>>
            THEN init_diff_matrix(a.mats, group - 1)
            ELSE a
    IN  Second(IF group > first_group + 1 /\ mats[group - 2].rows = <<>>
               THEN init_diff_matrix(mats, group - 2)
               ELSE [ok |-> TRUE, mats |-> mats])

\* the three tests that open eliminate_gens: [ok, mats]
LazyInit(mats) ==
    LET Third(b) ==
            IF ~b.ok THEN b
            ELSE IF group < last_group /\ b.mats[group].rows = <<>>
            THEN init_diff_matrix(b.mats, group)
            ELSE b
        Second(a) ==
            Third(IF ~a.ok THEN a
                  ELSE IF group > first_group /\ a.mats[group - 1].rows = <<>>
                  THEN init_diff_matrix(a.mats, group - 1)
                  ELSE a)
    IN  Second(IF group > first_group + 1 /\ mats[group - 2].rows = <<>>
               THEN init_diff_matrix(mats, group - 2)
               ELSE [ok |-> TRUE, mats |-> mats])

\* kill_gen that erases the column of the generator but not its row
kill_gen_column_only(mats, grp, gen_num) ==
    LET ColumnErased(c) ==
            [ok |-> c.ret # -1, mats |-> [mats EXCEPT ![grp] = c.matr]]
    IN  IF grp < last_group
        THEN ColumnErased(erase_m_column(mats[grp], gen_num, TRUE))
        ELSE [ok |-> TRUE, mats |-> mats]

\* [ok, mats]; the caller decrements num_generators[grp]
kill_gen(mats, grp, gen_num) ==
    LET ColumnErased(m1, c) ==
            [ok |-> c.ret # -1, mats |-> [m1 EXCEPT ![grp] = c.matr]]
        Column(m1) ==
            IF grp < last_group
            THEN ColumnErased(m1, erase_m_column(m1[grp], gen_num, TRUE))
            ELSE [ok |-> TRUE, mats |-> m1]
        Row(r) ==
            IF r.ret = -1 THEN [ok |-> FALSE, mats |-> r.mats]
            ELSE Column(r.mats)
        RowErased(r) ==
            [ret |-> r.ret, mats |-> [mats EXCEPT ![grp - 1] = r.matr]]
    IN  Row(IF grp > first_group
            THEN RowErased(erase_m_row(mats[grp - 1], gen_num, TRUE))
            ELSE [ret |-> 0, mats |-> mats])

\* SweepLoop reading cur_entry->next after the call of add_m_cols: the read
\* is undefined when the call has freed cur_entry
RECURSIVE SweepLoop_reads_next_late(_, _, _, _, _)
SweepLoop_reads_next_late(m, gen_num, inc_gen, gen_coeff, cur) ==
    IF cur = 0 THEN [ret |-> 0, matr |-> m]
    ELSE LET entries == m.rows[gen_num].entries
             p == FindPos(entries, cur, 1)
             cur_entry == entries[p]
             add_coeff == mult_Uvals(cur_entry.value, gen_coeff)
             Next_entry(after) ==
                 LET q == FindPos(after, cur, 1)
                 IN  IF q > Len(after) \/ after[q].index # cur THEN -2
                     ELSE IF q < Len(after) THEN after[q + 1].index ELSE 0
             Added(a) ==
                 IF a.ret = -1 THEN [ret |-> -1, matr |-> a.matr]
                 ELSE IF Next_entry(a.matr.rows[gen_num].entries) = -2
                 THEN [ret |-> -2, matr |-> a.matr]
                 ELSE SweepLoop_reads_next_late(a.matr, gen_num, inc_gen,
                          gen_coeff,
                          Next_entry(a.matr.rows[gen_num].entries))
         IN  IF cur_entry.index # inc_gen
             THEN Added(add_m_cols(m, cur_entry.index, inc_gen, add_coeff))
             ELSE Added([ret |-> 0, matr |-> m])

\* the while loop of eliminate_gens over the entries of row gen_num of m:
\* [ret, matr].  cur is the index of cur_entry in that row, 0 for NULL; an
\* entry is known by its index, so ret = -2 says that the entry next_entry
\* pointed to is no longer in the row when the loop comes to it.
RECURSIVE SweepLoop(_, _, _, _, _)
SweepLoop(m, gen_num, inc_gen, gen_coeff, cur) ==
    IF cur = 0 THEN [ret |-> 0, matr |-> m]
    ELSE LET entries == m.rows[gen_num].entries
             p == FindPos(entries, cur, 1)
         IN  IF p > Len(entries) \/ entries[p].index # cur
             THEN [ret |-> -2, matr |-> m]
             ELSE
             LET cur_entry == entries[p]
                 next_entry == IF p < Len(entries) THEN entries[p + 1].index
                               ELSE 0
                 add_coeff == mult_Uvals(cur_entry.value, gen_coeff)
                 Added(a) ==
                     IF a.ret = -1 THEN [ret |-> -1, matr |-> a.matr]
                     ELSE SweepLoop(a.matr, gen_num, inc_gen, gen_coeff,
                                    next_entry)
             IN  IF cur_entry.index # inc_gen
                 THEN Added(add_m_cols(m, cur_entry.index, inc_gen,
                                       add_coeff))
                 ELSE SweepLoop(m, gen_num, inc_gen, gen_coeff, next_entry)

LibraryError == "sparmat-U: call failed"
GenError == "eliminate_gens: generator is not killed cleanly"
MatrError == "matr2pari: matrix is corrupt"
Undefined == "undefined behaviour"

\* EliminatePair without the two tests of num_entries
EliminatePair_unasserted(inc_gen, gen_val) ==
    LET gen_coeff == <<Wrap(-gen_val[1]), Wrap(-gen_val[2])>>
        row == cplx_matrices[group - 1].rows[gen]
        Killed2(k2) ==
            [err |-> IF k2.ok THEN "" ELSE LibraryError, mats |-> k2.mats]
        Killed1(k1) ==
            IF ~k1.ok THEN [err |-> LibraryError, mats |-> k1.mats]
            ELSE Killed2(kill_gen(k1.mats, group, gen))
        Swept(sw, swept) ==
            IF sw.ret = -2 THEN [err |-> Undefined, mats |-> swept]
            ELSE IF sw.ret = -1 THEN [err |-> LibraryError, mats |-> swept]
            ELSE Killed1(kill_gen(swept, group - 1, inc_gen))
        Sweep(sw) ==
            Swept(sw, [cplx_matrices EXCEPT ![group - 1] = sw.matr])
    IN  Sweep(SweepLoop(cplx_matrices[group - 1], gen, inc_gen, gen_coeff,
                        IF row.entries = <<>> THEN 0
                        ELSE row.entries[1].index))

\* the body of the for loop of eliminate_gens once find_v_unit has found
\* the unit gen_val at column inc_gen of row gen:
\* [err, mats], err = "" when both generators are killed
EliminatePair(inc_gen, gen_val) ==
    LET gen_coeff == <<Wrap(-gen_val[1]), Wrap(-gen_val[2])>>
        row == cplx_matrices[group - 1].rows[gen]
        Killed2(k2) ==
            [err |-> IF k2.ok THEN "" ELSE LibraryError, mats |-> k2.mats]
        Killed1(k1) ==
            IF ~k1.ok THEN [err |-> LibraryError, mats |-> k1.mats]
            ELSE IF k1.mats[group - 1].rows[gen].num_entries # 0
            THEN [err |-> GenError, mats |-> k1.mats]
            ELSE Killed2(kill_gen(k1.mats, group, gen))
        Swept(sw, swept) ==
            IF sw.ret = -2 THEN [err |-> Undefined, mats |-> swept]
            ELSE IF sw.ret = -1 THEN [err |-> LibraryError, mats |-> swept]
            ELSE IF sw.matr.rows[gen].num_entries # 1
            THEN [err |-> GenError, mats |-> swept]
            ELSE Killed1(kill_gen(swept, group - 1, inc_gen))
        Sweep(sw) ==
            Swept(sw, [cplx_matrices EXCEPT ![group - 1] = sw.matr])
    IN  Sweep(SweepLoop(cplx_matrices[group - 1], gen, inc_gen, gen_coeff,
                        IF row.entries = <<>> THEN 0
                        ELSE row.entries[1].index))

\* the index the while loop of matr2pari stops at when it starts at from:
\* the first vector from there on that is not deleted, Len + 1 when none
RECURSIVE SkipDeleted(_, _)
SkipDeleted(vecs, from) ==
    IF from > Len(vecs) THEN from
    ELSE IF vecs[from].num_entries = -1 THEN SkipDeleted(vecs, from + 1)
    ELSE from

\* the index matr2pari reaches for its i-th column (j-th row)
RECURSIVE NthKept(_, _)
NthKept(vecs, n) ==
    IF n = 1 THEN SkipDeleted(vecs, 1)
    ELSE LET before == NthKept(vecs, n - 1)
         IN  IF before > Len(vecs) THEN before
             ELSE SkipDeleted(vecs, before + 1)

\* (long) gen_0 in a slot of matrices_vec: no matrix
NoMatrix == <<>>

\* [err, pari_matr]; pari_matr[1] and pari_matr[2] are the t_MATs of the
\* two components, each a sequence of columns.  Every cell is removed once
\* and removing one cell does not change what the others return, so each
\* is taken from the matrix as matr2pari finds it.
matr2pari(mats, numgens, grp) ==
    LET m == mats[grp]
        n_rows == numgens[grp + 1]
        n_cols == numgens[grp]
        col(i) == NthKept(m.columns, i)
        row(j) == NthKept(m.rows, j)
        cell(i, j) == remove_m_entry(m, row(j), col(i))
    IN  IF \/ \E i \in 1..n_cols : col(i) > m.num_cols
           \/ \E j \in 1..n_rows : row(j) > m.num_rows
        THEN [err |-> MatrError, pari_matr |-> <<NoMatrix, NoMatrix>>]
        ELSE IF \E i \in 1..n_cols, j \in 1..n_rows : cell(i, j).ret = -1
        THEN [err |-> LibraryError, pari_matr |-> <<NoMatrix, NoMatrix>>]
        ELSE [err |-> "",
              pari_matr |->
                  <<[i \in 1..n_cols |->
                        [j \in 1..n_rows |-> cell(i, j).val[1]]],
                    [i \in 1..n_cols |->
                        [j \in 1..n_rows |-> cell(i, j).val[2]]]>>]

\* feed2pari without the test for matrices of zero size
feed2pari_keeps_empty_matrices(size, first, lastg, numgens, mats) ==
    LET groups == IF first < 0 THEN {} ELSE first..lastg
        kept == {g \in groups : numgens[g] # 0}
        withmatr == {g \in kept : g # lastg}
        mp == [g \in withmatr |-> matr2pari(mats, numgens, g)]
        errs == {mp[g].err : g \in withmatr} \ {""}
    IN  [err |-> IF errs = {} THEN "" ELSE CHOOSE e \in errs : TRUE,
         main_vec |->
             <<[i \in 1..size |-> IF (i - 1) \in kept THEN numgens[i - 1]
                                   ELSE 0],
               [i \in 1..(size - 1) |->
                   IF (i - 1) \in withmatr THEN mp[i - 1].pari_matr[1]
                   ELSE NoMatrix],
               [i \in 1..(size - 1) |->
                   IF (i - 1) \in withmatr THEN mp[i - 1].pari_matr[2]
                   ELSE NoMatrix]>>]

\* [err, main_vec]; main_vec = <<numgen_vec, matrices_vec[0], matrices_vec[1]>>
feed2pari(size, first, lastg, numgens, mats) ==
    LET groups == IF first < 0 THEN {} ELSE first..lastg
        kept == {g \in groups : numgens[g] # 0}
        withmatr == {g \in kept : g # lastg /\ numgens[g + 1] # 0}
        mp == [g \in withmatr |-> matr2pari(mats, numgens, g)]
        errs == {mp[g].err : g \in withmatr} \ {""}
    IN  [err |-> IF errs = {} THEN "" ELSE CHOOSE e \in errs : TRUE,
         main_vec |->
             <<[i \in 1..size |-> IF (i - 1) \in kept THEN numgens[i - 1]
                                   ELSE 0],
               [i \in 1..(size - 1) |->
                   IF (i - 1) \in withmatr THEN mp[i - 1].pari_matr[1]
                   ELSE NoMatrix],
               [i \in 1..(size - 1) |->
                   IF (i - 1) \in withmatr THEN mp[i - 1].pari_matr[2]
                   ELSE NoMatrix]>>]

\* cleanup()
Cleanup ==
    /\ cplx_size' = 0
    /\ first_group' = 0
    /\ last_group' = 0
    /\ cplx_matrices' = <<>>
    /\ cplx_group_ranks' = <<>>
    /\ num_generators' = <<>>

\* bailout(): cleanup() and pari_err(), which does not return
Bailout(msg) ==
    /\ ERR_MESSAGE' = msg
    /\ Cleanup
    /\ pc' = IF msg = Undefined THEN "undefined" ELSE "error"
    /\ UNCHANGED <<group, do_short, gen, isfound, answer>>

\* return answer, after feed2pari() and cleanup()
ReturnAnswer(f) ==
    IF f.err # "" THEN Bailout(f.err)
    ELSE /\ answer' = f.main_vec
         /\ Cleanup
         /\ pc' = "done"
         /\ UNCHANGED <<group, do_short, gen, isfound, ERR_MESSAGE>>

Unchanged == UNCHANGED <<ring, abs_min, mvars, complex, args>>

\* Start taking the empty complex for an error
Start_empty_is_error ==
    /\ pc = "call"
    /\ LET size == args.c_size
           ranks == [i \in 0..(size - 1) |-> args.c_ranks[i + 1]]
           nonempty == {i \in DOMAIN ranks : ranks[i] > 0}
           first == CHOOSE i \in nonempty : \A k \in nonempty : i <= k
           lastg == CHOOSE i \in nonempty : \A k \in nonempty : i >= k
       IN  IF nonempty = {}
           THEN Bailout(LibraryError)
           ELSE /\ cplx_size' = size
                /\ cplx_matrices' = [i \in 0..(size - 2) |-> NullMatrix]
                /\ cplx_group_ranks' = ranks
                /\ num_generators' = ranks
                /\ first_group' = first
                /\ last_group' = lastg
                /\ group' = first + 1
                /\ do_short' = TRUE
                /\ pc' = IF first + 1 <= lastg THEN "elim" ELSE "feed"
                /\ UNCHANGED <<gen, isfound, ERR_MESSAGE, answer>>
    /\ Unchanged

\* reduce_s_complex_U up to its for loop: malloc_arrays and init_ranks
Start ==
    /\ pc = "call"
    /\ LET size == args.c_size
           ranks == [i \in 0..(size - 1) |-> args.c_ranks[i + 1]]
           nonempty == {i \in DOMAIN ranks : ranks[i] > 0}
           first == CHOOSE i \in nonempty : \A k \in nonempty : i <= k
           lastg == CHOOSE i \in nonempty : \A k \in nonempty : i >= k
       IN  IF nonempty = {}
           THEN ReturnAnswer(feed2pari(size, -1, -1, ranks,
                                       [i \in 0..(size - 2) |-> NullMatrix]))
           ELSE /\ cplx_size' = size
                /\ cplx_matrices' = [i \in 0..(size - 2) |-> NullMatrix]
                /\ cplx_group_ranks' = ranks
                /\ num_generators' = ranks
                /\ first_group' = first
                /\ last_group' = lastg
                /\ group' = first + 1
                /\ do_short' = TRUE
                /\ pc' = IF first + 1 <= lastg THEN "elim" ELSE "feed"
                /\ UNCHANGED <<gen, isfound, ERR_MESSAGE, answer>>
    /\ Unchanged

\* EnterEliminate without 'isfound = 0'
EnterEliminate_keeps_isfound ==
    /\ pc = "elim"
    /\ LET Initialised(li) ==
               IF ~li.ok THEN Bailout(LibraryError)
               ELSE /\ cplx_matrices' = li.mats
                    /\ gen' = 1
                    /\ pc' = "scan"
                    /\ UNCHANGED <<cplx_size, first_group, last_group,
                                   cplx_group_ranks, num_generators, group,
                                   do_short, isfound, ERR_MESSAGE, answer>>
       IN  Initialised(LazyInit(cplx_matrices))
    /\ Unchanged

\* eliminate_gens(group, do_short) up to its for loop
EnterEliminate ==
    /\ pc = "elim"
    /\ LET Initialised(li) ==
               IF ~li.ok THEN Bailout(LibraryError)
               ELSE /\ cplx_matrices' = li.mats
                    /\ gen' = 1
                    /\ isfound' = FALSE
                    /\ pc' = "scan"
                    /\ UNCHANGED <<cplx_size, first_group, last_group,
                                   cplx_group_ranks, num_generators, group,
                                   do_short, ERR_MESSAGE, answer>>
       IN  Initialised(LazyInit(cplx_matrices))
    /\ Unchanged

\* ScanRow passing over every row of more than one entry, in both passes
ScanRow_single_entry_rows ==
    /\ pc = "scan"
    /\ gen <= cplx_group_ranks[group]
    /\ LET inum_vector == cplx_matrices[group - 1].rows[gen]
           unit == find_v_unit(inum_vector)
           skip == \/ inum_vector.num_entries = -1
                   \/ inum_vector.num_entries > 1
                   \/ unit.ret = 0
           Eliminated(e) ==
               IF e.err # "" THEN Bailout(e.err)
               ELSE /\ cplx_matrices' = e.mats
                    /\ num_generators' =
                           [num_generators EXCEPT ![group - 1] = @ - 1,
                                                  ![group] = @ - 1]
                    /\ isfound' = TRUE
                    /\ gen' = gen + 1
                    /\ UNCHANGED <<cplx_size, first_group, last_group,
                                   cplx_group_ranks, pc, group, do_short,
                                   ERR_MESSAGE, answer>>
       IN  IF skip
           THEN /\ gen' = gen + 1
                /\ UNCHANGED <<cplx_size, first_group, last_group,
                               cplx_matrices, cplx_group_ranks,
                               num_generators, pc, group, do_short, isfound,
                               ERR_MESSAGE, answer>>
           ELSE Eliminated(EliminatePair(unit.ret, unit.val))
    /\ Unchanged

\* ScanRow leaving every row of more than two entries alone in the full
\* pass as well
ScanRow_short_only ==
    /\ pc = "scan"
    /\ gen <= cplx_group_ranks[group]
    /\ LET inum_vector == cplx_matrices[group - 1].rows[gen]
           unit == find_v_unit(inum_vector)
           skip == \/ inum_vector.num_entries = -1
                   \/ inum_vector.num_entries > 2
                   \/ unit.ret = 0
           Eliminated(e) ==
               IF e.err # "" THEN Bailout(e.err)
               ELSE /\ cplx_matrices' = e.mats
                    /\ num_generators' =
                           [num_generators EXCEPT ![group - 1] = @ - 1,
                                                  ![group] = @ - 1]
                    /\ isfound' = TRUE
                    /\ gen' = gen + 1
                    /\ UNCHANGED <<cplx_size, first_group, last_group,
                                   cplx_group_ranks, pc, group, do_short,
                                   ERR_MESSAGE, answer>>
       IN  IF skip
           THEN /\ gen' = gen + 1
                /\ UNCHANGED <<cplx_size, first_group, last_group,
                               cplx_matrices, cplx_group_ranks,
                               num_generators, pc, group, do_short, isfound,
                               ERR_MESSAGE, answer>>
           ELSE Eliminated(EliminatePair(unit.ret, unit.val))
    /\ Unchanged

\* ScanRow lowering num_generators for group only, not for group - 1
ScanRow_counts_one_group ==
    /\ pc = "scan"
    /\ gen <= cplx_group_ranks[group]
    /\ LET inum_vector == cplx_matrices[group - 1].rows[gen]
           unit == find_v_unit(inum_vector)
           skip == \/ inum_vector.num_entries = -1
                   \/ do_short /\ inum_vector.num_entries > 2
                   \/ unit.ret = 0
           Eliminated(e) ==
               IF e.err # "" THEN Bailout(e.err)
               ELSE /\ cplx_matrices' = e.mats
                    /\ num_generators' =
                           [num_generators EXCEPT ![group] = @ - 1]
                    /\ isfound' = TRUE
                    /\ gen' = gen + 1
                    /\ UNCHANGED <<cplx_size, first_group, last_group,
                                   cplx_group_ranks, pc, group, do_short,
                                   ERR_MESSAGE, answer>>
       IN  IF skip
           THEN /\ gen' = gen + 1
                /\ UNCHANGED <<cplx_size, first_group, last_group,
                               cplx_matrices, cplx_group_ranks,
                               num_generators, pc, group, do_short, isfound,
                               ERR_MESSAGE, answer>>
           ELSE Eliminated(EliminatePair(unit.ret, unit.val))
    /\ Unchanged

\* ScanRow taking both generators of a pair from the count of group
ScanRow_counts_group_twice ==
    /\ pc = "scan"
    /\ gen <= cplx_group_ranks[group]
    /\ LET inum_vector == cplx_matrices[group - 1].rows[gen]
           unit == find_v_unit(inum_vector)
           skip == \/ inum_vector.num_entries = -1
                   \/ do_short /\ inum_vector.num_entries > 2
                   \/ unit.ret = 0
           Eliminated(e) ==
               IF e.err # "" THEN Bailout(e.err)
               ELSE /\ cplx_matrices' = e.mats
                    /\ num_generators' =
                           [num_generators EXCEPT ![group] = @ - 2]
                    /\ isfound' = TRUE
                    /\ gen' = gen + 1
                    /\ UNCHANGED <<cplx_size, first_group, last_group,
                                   cplx_group_ranks, pc, group, do_short,
                                   ERR_MESSAGE, answer>>
       IN  IF skip
           THEN /\ gen' = gen + 1
                /\ UNCHANGED <<cplx_size, first_group, last_group,
                               cplx_matrices, cplx_group_ranks,
                               num_generators, pc, group, do_short, isfound,
                               ERR_MESSAGE, answer>>
           ELSE Eliminated(EliminatePair(unit.ret, unit.val))
    /\ Unchanged

\* one round of the for loop of eliminate_gens, for the generator gen
ScanRow ==
    /\ pc = "scan"
    /\ gen <= cplx_group_ranks[group]
    /\ LET inum_vector == cplx_matrices[group - 1].rows[gen]
           unit == find_v_unit(inum_vector)
           skip == \/ inum_vector.num_entries = -1
                   \/ do_short /\ inum_vector.num_entries > 2
                   \/ unit.ret = 0
           Eliminated(e) ==
               IF e.err # "" THEN Bailout(e.err)
               ELSE /\ cplx_matrices' = e.mats
                    /\ num_generators' =
                           [num_generators EXCEPT ![group - 1] = @ - 1,
                                                  ![group] = @ - 1]
                    /\ isfound' = TRUE
                    /\ gen' = gen + 1
                    /\ UNCHANGED <<cplx_size, first_group, last_group,
                                   cplx_group_ranks, pc, group, do_short,
                                   ERR_MESSAGE, answer>>
       IN  IF skip
           THEN /\ gen' = gen + 1
                /\ UNCHANGED <<cplx_size, first_group, last_group,
                               cplx_matrices, cplx_group_ranks,
                               num_generators, pc, group, do_short, isfound,
                               ERR_MESSAGE, answer>>
           ELSE Eliminated(EliminatePair(unit.ret, unit.val))
    /\ Unchanged

\* LeaveEliminate with no for loop over the groups: the first is the last
LeaveEliminate_one_group ==
    /\ pc = "scan"
    /\ gen > cplx_group_ranks[group]
    /\ IF isfound
       THEN pc' = "elim" /\ UNCHANGED <<group, do_short>>
       ELSE IF do_short
       THEN pc' = "elim" /\ do_short' = FALSE /\ UNCHANGED group
       ELSE /\ group' = group + 1
            /\ do_short' = TRUE
            /\ pc' = "feed"
    /\ UNCHANGED <<cplx_size, first_group, last_group, cplx_matrices,
                   cplx_group_ranks, num_generators, gen, isfound,
                   ERR_MESSAGE, answer>>
    /\ Unchanged

\* LeaveEliminate with an if in place of the first while: one short call
LeaveEliminate_short_once ==
    /\ pc = "scan"
    /\ gen > cplx_group_ranks[group]
    /\ IF do_short
       THEN pc' = "elim" /\ do_short' = FALSE /\ UNCHANGED group
       ELSE IF isfound
       THEN pc' = "elim" /\ UNCHANGED <<group, do_short>>
       ELSE /\ group' = group + 1
            /\ do_short' = TRUE
            /\ pc' = IF group + 1 <= last_group THEN "elim" ELSE "feed"
    /\ UNCHANGED <<cplx_size, first_group, last_group, cplx_matrices,
                   cplx_group_ranks, num_generators, gen, isfound,
                   ERR_MESSAGE, answer>>
    /\ Unchanged

\* LeaveEliminate with 'while (1)' for the full pass: the call is repeated
\* whatever it returns
LeaveEliminate_full_forever ==
    /\ pc = "scan"
    /\ gen > cplx_group_ranks[group]
    /\ IF isfound
       THEN pc' = "elim" /\ UNCHANGED <<group, do_short>>
       ELSE IF do_short
       THEN pc' = "elim" /\ do_short' = FALSE /\ UNCHANGED group
       ELSE pc' = "elim" /\ UNCHANGED <<group, do_short>>
    /\ UNCHANGED <<cplx_size, first_group, last_group, cplx_matrices,
                   cplx_group_ranks, num_generators, gen, isfound,
                   ERR_MESSAGE, answer>>
    /\ Unchanged

\* eliminate_gens returns isfound to the while loops of reduce_s_complex_U
LeaveEliminate ==
    /\ pc = "scan"
    /\ gen > cplx_group_ranks[group]
    /\ IF isfound
       THEN pc' = "elim" /\ UNCHANGED <<group, do_short>>
       ELSE IF do_short
       THEN pc' = "elim" /\ do_short' = FALSE /\ UNCHANGED group
       ELSE /\ group' = group + 1
            /\ do_short' = TRUE
            /\ pc' = IF group + 1 <= last_group THEN "elim" ELSE "feed"
    /\ UNCHANGED <<cplx_size, first_group, last_group, cplx_matrices,
                   cplx_group_ranks, num_generators, gen, isfound,
                   ERR_MESSAGE, answer>>
    /\ Unchanged

\* answer = feed2pari(); cleanup(); return answer
Feed ==
    /\ pc = "feed"
    /\ ReturnAnswer(feed2pari(cplx_size, first_group, last_group,
                              num_generators, cplx_matrices))
    /\ Unchanged

InitR ==
    /\ ring = "U"
    /\ abs_min \in AbsMinOutcomes
    /\ matr = NullMatrix
    /\ last = Call("none", 0, 0, Uzero, FALSE, 0, Uzero)
    /\ failed = FALSE
    /\ nops = 0
    /\ \/ \E rk \in RankVectors :
             \E D0 \in DenseMatrices(rk[2], rk[1]) :
                \E rows \in [1..rk[3] -> KernelRows(D0, rk[2], rk[1])] :
                   complex = SmallComplex(rk, D0, rows)
       \/ complex = WideComplex
       \/ complex = SkewComplex
       \/ complex = OrderComplex
       \/ complex = S4Complex
    /\ SquareZero(complex)
    /\ \/ args = HostArgs(complex)
       \/ complex = SkewComplex /\ args = OutOfRangeArgs(complex)
    /\ pc = "call"
    /\ StaticGlobals

NextR ==
    \/ Start
    \/ EnterEliminate
    \/ ScanRow
    \/ LeaveEliminate
    \/ Feed

SpecR == InitR /\ [][NextR]_vars

(***************************************************************************)
(* Views of a matrix used to state the properties.                         *)
(***************************************************************************)
\* the entries physically in the list of vec that carry index ind
EntriesAt(vec, ind) ==
    {p \in 1..Len(vec.entries) : vec.entries[p].index = ind}

ValuesAt(vec, ind) == {vec.entries[p].value : p \in EntriesAt(vec, ind)}

IsDeleted(vec) == vec.num_entries = -1

RowIds(m) == 1..m.num_rows
ColIds(m) == 1..m.num_cols

AllVectors(m) ==
    {m.rows[r] : r \in RowIds(m)} \cup {m.columns[c] : c \in ColIds(m)}

\* the exact magnitude of a value (no register involved)
Magnitude(val) ==
    LET mag(x) == IF x < 0 THEN -x ELSE x
    IN  IF ring = "Z" THEN mag(val)
        ELSE IF mag(val[1]) > mag(val[2]) THEN mag(val[1]) ELSE mag(val[2])

Bilateral(m) ==
    \A r \in RowIds(m), c \in ColIds(m) :
        /\ (EntriesAt(m.rows[r], c) # {}) <=> (EntriesAt(m.columns[c], r) # {})
        /\ ValuesAt(m.rows[r], c) = ValuesAt(m.columns[c], r)

WellFormed(vec) ==
    /\ \A p \in 1..(Len(vec.entries) - 1) :
          vec.entries[p].index < vec.entries[p + 1].index
    /\ \A p \in 1..Len(vec.entries) : ~is_zero(vec.entries[p].value)
    /\ IsDeleted(vec) \/ vec.num_entries = Len(vec.entries)

SuccessfulCall(ops) == ~failed /\ last.op \in ops /\ last.ret # -1

(***************************************************************************)
(* C1.  Bilateral consistency: as long as every call has succeeded, row r  *)
(* holds an entry at index c iff column c holds an entry at index r, and   *)
(* the two entries carry the same value.                                   *)
(***************************************************************************)
C1_BilateralConsistency == ~failed => Bilateral(matr)

\* an add_cols that succeeded and left a matrix with at least two entries
C1_Witness ==
    /\ SuccessfulCall({"add_cols"})
    /\ last.ret > 0
    /\ \E r \in RowIds(matr) : Len(matr.rows[r].entries) >= 2

(***************************************************************************)
(* C5.  Vector well-formedness: as long as every call has succeeded, every *)
(* row and column vector has strictly increasing indices, holds no zero    *)
(* value, and its count is the length of its list unless it is deleted.    *)
(***************************************************************************)
C5_VectorWellFormed == ~failed => \A vec \in AllVectors(matr) : WellFormed(vec)

\* right after an add_rows that left two entries in its target row, and
\* right after an add_cols on a matrix that holds a deleted vector
C5_Witness ==
    \/ /\ SuccessfulCall({"add_rows"})
       /\ last.i # last.j
       /\ Len(matr.rows[last.i].entries) >= 2
    \/ /\ SuccessfulCall({"add_cols"})
       /\ last.i # last.j
       /\ Len(matr.columns[last.i].entries) >= 1
       /\ \E vec \in AllVectors(matr) : IsDeleted(vec)

(***************************************************************************)
(* C7.  Magnitude bound: as long as every put, add_rows and add_cols has   *)
(* succeeded, every stored entry has magnitude at most ENTRY_MAX; and a    *)
(* put of a value of larger magnitude reports failure.                     *)
(***************************************************************************)
C7_MagnitudeBound ==
    ring = "Z" =>
        /\ ~failed =>
              \A vec \in AllVectors(matr) :
                  \A p \in 1..Len(vec.entries) :
                      Magnitude(vec.entries[p].value) <= ENTRY_MAX
        /\ (last.op = "put" /\ Magnitude(last.val) > ENTRY_MAX) =>
              last.ret = -1

(***************************************************************************)
(* The dense reference for add_rows / add_cols.  A call record c of        *)
(* add_rows(r1, r2, s) has c.i = r1, c.j = r2, c.val = s; Family is the    *)
(* family of vectors the operands belong to and Others the orthogonal one. *)
(***************************************************************************)
AddOps == {"add_rows", "add_cols"}

Family(m, op) == IF op = "add_rows" THEN m.rows ELSE m.columns
Others(m, op) == IF op = "add_rows" THEN m.columns ELSE m.rows

\* the value a vector holds at an index, zero when it has no entry there
Dense(vec, ind) ==
    IF EntriesAt(vec, ind) = {} THEN SM_zero
    ELSE vec.entries[CHOOSE p \in EntriesAt(vec, ind) : TRUE].value

\* ring operations on exact (unbounded) integers
ExactAdd(v1, v2) ==
    IF ring = "Z" THEN v1 + v2 ELSE <<v1[1] + v2[1], v1[2] + v2[2]>>

ExactMult(v1, v2) ==
    IF ring = "Z" THEN v1 * v2
    ELSE <<v1[1] * v2[1] + v1[2] * v2[2], v1[1] * v2[2] + v1[2] * v2[1]>>

\* old(r1,k) + s * old(r2,k)
ExactSum(m, c, k) ==
    ExactAdd(Dense(Family(m, c.op)[c.i], k),
             ExactMult(c.val, Dense(Family(m, c.op)[c.j], k)))

LiveOperands(m, c) ==
    /\ ~IsDeleted(Family(m, c.op)[c.i])
    /\ ~IsDeleted(Family(m, c.op)[c.j])

\* no old value, product or sum of the call exceeds the magnitude bound
NoValueExceeds(m, c) ==
    \A k \in 1..Len(Others(m, c.op)) :
        /\ Magnitude(Dense(Family(m, c.op)[c.i], k)) <= ENTRY_MAX
        /\ Magnitude(Dense(Family(m, c.op)[c.j], k)) <= ENTRY_MAX
        /\ Magnitude(ExactMult(c.val, Dense(Family(m, c.op)[c.j], k)))
              <= ENTRY_MAX
        /\ Magnitude(ExactSum(m, c, k)) <= ENTRY_MAX

\* m2 is m with vector c.i of the family replaced by the exact sum, in both
\* views, and no entry of that vector holds zero
IsDenseResult(m, m2, c) ==
    /\ \A v \in 1..Len(Family(m, c.op)), k \in 1..Len(Others(m, c.op)) :
          LET expected == IF v = c.i THEN ExactSum(m, c, k)
                          ELSE Dense(Family(m, c.op)[v], k)
          IN  /\ Dense(Family(m2, c.op)[v], k) = expected
              /\ Dense(Others(m2, c.op)[k], v) = expected
    /\ \A p \in 1..Len(Family(m2, c.op)[c.i].entries) :
          ~is_zero(Family(m2, c.op)[c.i].entries[p].value)

(***************************************************************************)
(* C4.  add_rows(r1, r2, s) on two distinct live rows, when no value       *)
(* exceeds the magnitude bound, succeeds and leaves the matrix equal to    *)
(* the dense reference: cell (r1,c) is old(r1,c) + s*old(r2,c), absent     *)
(* when that is zero, and every other cell is unchanged; add_cols is the   *)
(* symmetric statement.                                                    *)
(***************************************************************************)
C4_AddIsDenseReference ==
    [][(/\ last'.op \in AddOps
        /\ ~failed
        /\ last'.i # last'.j
        /\ LiveOperands(matr, last')
        /\ NoValueExceeds(matr, last'))
       => (last'.ret # -1 /\ IsDenseResult(matr, matr', last'))]_vars

\* an add_rows in Z[t]/(t^2 = 1) whose scalar 1 - t met an entry 1 + t of
\* row r2 (their product is zero), and an add_cols that cancelled an entry
C4_Witness ==
    \/ /\ ring = "U"
       /\ SuccessfulCall({"add_rows"})
       /\ last.i # last.j
       /\ last.val = <<1, -1>>
       /\ \E k \in ColIds(matr) :
             /\ Dense(matr.rows[last.j], k) = <<1, 1>>
             /\ EntriesAt(matr.rows[last.i], k) = {}
    \/ /\ ring = "Z"
       /\ SuccessfulCall({"add_cols"})
       /\ last.i # last.j
       /\ last.val = -1
       /\ \E k \in RowIds(matr) :
             /\ Dense(matr.columns[last.j], k) = -1
             /\ EntriesAt(matr.columns[last.i], k) = {}

(***************************************************************************)
(* C6.  Overflow guard: whenever the exact value of some s*r2[i] or        *)
(* r1[i] + s*r2[i] of an add_rows / add_cols has magnitude above ENTRY_MAX *)
(* the call reports failure, and a call that reports success has stored    *)
(* the exact values, none of them wrapped around.                          *)
(***************************************************************************)
ExactTooBig(m, c) ==
    \E k \in 1..Len(Others(m, c.op)) :
        /\ EntriesAt(Family(m, c.op)[c.j], k) # {}
        /\ \/ Magnitude(ExactMult(c.val, Dense(Family(m, c.op)[c.j], k)))
                 > ENTRY_MAX
           \/ Magnitude(ExactSum(m, c, k)) > ENTRY_MAX

C6_OverflowGuard ==
    [][(/\ ring = "Z"
        /\ abs_min = -INT_MIN
        /\ last'.op \in AddOps
        /\ ~failed
        /\ last'.i # last'.j
        /\ LiveOperands(matr, last'))
       => /\ ExactTooBig(matr, last') => last'.ret = -1
          /\ last'.ret # -1 => IsDenseResult(matr, matr', last')]_vars

(***************************************************************************)
(* Tombstones.  A call record names its operand vectors: put, remove and   *)
(* get address row c.i and column c.j; erase_row and find_unit_row row     *)
(* c.i; erase_col and find_unit_col column c.j; add_rows rows c.i and c.j; *)
(* add_cols columns c.i and c.j.                                           *)
(***************************************************************************)
OperandVectors(m, c) ==
    CASE c.op \in {"get", "put", "remove"} -> {m.rows[c.i], m.columns[c.j]}
      [] c.op \in {"erase_row", "find_unit_row"} -> {m.rows[c.i]}
      [] c.op \in {"erase_col", "find_unit_col"} -> {m.columns[c.j]}
      [] c.op = "add_rows" -> {m.rows[c.i], m.rows[c.j]}
      [] c.op = "add_cols" -> {m.columns[c.i], m.columns[c.j]}
      [] OTHER -> {}

OnDeleted(m, c) == \E vec \in OperandVectors(m, c) : IsDeleted(vec)

MutatingOps ==
    {"put", "remove", "erase_row", "erase_col", "add_rows", "add_cols"}

FindOps == {"find_unit_row", "find_unit_col"}

Tombstone == [num_entries |-> -1, entries |-> <<>>]

(***************************************************************************)
(* C8.  Tombstone permanence: a vector that is deleted has count -1 and an *)
(* empty list, and stays so whatever call follows, successful or failing;  *)
(* an erase that addresses it again reports failure.                       *)
(***************************************************************************)
C8_TombstonePermanence ==
    [][/\ \A r \in RowIds(matr) :
             IsDeleted(matr.rows[r]) =>
                 matr.rows[r] = Tombstone /\ matr'.rows[r] = Tombstone
       /\ \A c \in ColIds(matr) :
             IsDeleted(matr.columns[c]) =>
                 matr.columns[c] = Tombstone /\ matr'.columns[c] = Tombstone
       /\ (last'.op \in {"erase_row", "erase_col"} /\ OnDeleted(matr, last'))
             => last'.ret = -1]_vars

\* a put of a non-zero value that addressed a live row and a deleted
\* column, failed, and left the column deleted
C8_Witness ==
    /\ last.op = "put"
    /\ ~is_zero(last.val)
    /\ last.ret = -1
    /\ ~IsDeleted(matr.rows[last.i])
    /\ matr.columns[last.j] = Tombstone
    /\ EntriesAt(matr.rows[last.i], last.j) # {}

(***************************************************************************)
(* C9.  Mutating a deleted vector is an error: put (of zero or not),       *)
(* remove, erase_row, erase_col, add_rows and add_cols report failure when *)
(* a vector they address is deleted, and so does find_v_unit.              *)
(***************************************************************************)
C9_MutatingDeletedFails ==
    [][(last'.op \in MutatingOps \cup FindOps /\ OnDeleted(matr, last'))
       => last'.ret = -1]_vars

\* a put of zero on a deleted row or column, or an add_rows whose second
\* operand is deleted, has just failed
C9_Witness ==
    /\ last.ret = -1
    /\ \/ /\ last.op = "put"
          /\ is_zero(last.val)
          /\ OnDeleted(matr, last)
       \/ /\ last.op = "add_rows"
          /\ ~IsDeleted(matr.rows[last.i])
          /\ IsDeleted(matr.rows[last.j])

(***************************************************************************)
(* C10.  Any access to a deleted vector is fatal: every public call that   *)
(* reads or writes a deleted row or column, get included, reports an       *)
(* error.                                                                  *)
(***************************************************************************)
C10_AccessDeletedFails ==
    [][(last'.op \in MutatingOps \cup FindOps \cup {"get"}
        /\ OnDeleted(matr, last'))
       => last'.ret = -1]_vars

(***************************************************************************)
(* C10, amended.  Every call that writes a deleted row or column (put,     *)
(* remove, erase_row, erase_col, add_rows, add_cols) or searches it        *)
(* (find_v_unit) reports an error.  get does not: it fails only when the   *)
(* row and the column disagree on the cell, and while every call has       *)
(* succeeded a get on a deleted row or column returns zero.                *)
(***************************************************************************)
C10_WritesToDeletedFail ==
    [][/\ (last'.op \in MutatingOps \cup FindOps /\ OnDeleted(matr, last'))
             => last'.ret = -1
       /\ last'.op = "get" =>
             /\ last'.ret = -1 <=>
                   ~vals_equal(Dense(matr.rows[last'.i], last'.j),
                               Dense(matr.columns[last'.j], last'.i))
             /\ (OnDeleted(matr, last') /\ ~failed) =>
                   (last'.ret = 0 /\ is_zero(last'.out))]_vars

\* a get that addressed a deleted row or column and returned zero
C10_Witness ==
    /\ SuccessfulCall({"get"})
    /\ OnDeleted(matr, last)
    /\ is_zero(last.out)
    /\ nops >= 2


(***************************************************************************)
(* The reduction in any order.  Once reduce_s_complex_U has returned, the  *)
(* same arguments are unpacked again and the elimination step of           *)
(* eliminate_gens is applied to any row that holds an entry of magnitude 1 *)
(* and to any such entry of it, in any order, for as long as there is one. *)
(* answer keeps what reduce_s_complex_U returned.                          *)
(***************************************************************************)
\* malloc_arrays and init_ranks once more
Restart ==
    /\ pc = "done"
    /\ complex # WideComplex
    /\ \E i \in 1..args.c_size : args.c_ranks[i] > 0
    /\ LET size == args.c_size
           ranks == [i \in 0..(size - 1) |-> args.c_ranks[i + 1]]
           nonempty == {i \in DOMAIN ranks : ranks[i] > 0}
       IN  /\ cplx_size' = size
           /\ cplx_matrices' = [i \in 0..(size - 2) |-> NullMatrix]
           /\ cplx_group_ranks' = ranks
           /\ num_generators' = ranks
           /\ first_group' = CHOOSE i \in nonempty : \A k \in nonempty : i <= k
           /\ last_group' = CHOOSE i \in nonempty : \A k \in nonempty : i >= k
    /\ pc' = "unpack"
    /\ UNCHANGED <<group, do_short, gen, isfound, ERR_MESSAGE, answer>>
    /\ Unchanged

\* init_diff_matrix for the matrices matrix, matrix + 1, ...: [ok, mats]
RECURSIVE UnpackFrom(_, _)
UnpackFrom(mats, matrix) ==
    IF matrix >= last_group THEN [ok |-> TRUE, mats |-> mats]
    ELSE LET Initialised(i) ==
                 IF ~i.ok THEN i ELSE UnpackFrom(i.mats, matrix + 1)
         IN  Initialised(init_diff_matrix(mats, matrix))

\* every differential is initialized before the first elimination
Unpack ==
    /\ pc = "unpack"
    /\ LET Initialised(u) ==
               IF ~u.ok THEN Bailout(LibraryError)
               ELSE /\ cplx_matrices' = u.mats
                    /\ pc' = "any"
                    /\ UNCHANGED <<cplx_size, first_group, last_group,
                                   cplx_group_ranks, num_generators, group,
                                   do_short, gen, isfound, ERR_MESSAGE,
                                   answer>>
       IN  Initialised(UnpackFrom(cplx_matrices, first_group))
    /\ Unchanged

\* the columns of row gn of the matrix into group grp that hold an entry
\* find_v_unit takes for invertible
UnitColumns(grp, gn) ==
    LET row == cplx_matrices[grp - 1].rows[gn]
    IN  {row.entries[p].index :
            p \in {q \in 1..Len(row.entries) :
                      ABSFUNC(row.entries[q].value) = 1}}

\* the rows eliminate_gens can pivot in: <<group, gen>>
PivotRows ==
    {gg \in UNION {{<<g, r>> : r \in 1..cplx_group_ranks[g]} :
                      g \in (first_group + 1)..last_group} :
        /\ cplx_matrices[gg[1] - 1].rows[gg[2]].num_entries # -1
        /\ UnitColumns(gg[1], gg[2]) # {}}

\* any row with an invertible entry is taken next
Pick ==
    /\ pc = "any"
    /\ \E gg \in PivotRows :
          /\ group' = gg[1]
          /\ gen' = gg[2]
    /\ pc' = "pivot"
    /\ UNCHANGED <<cplx_size, first_group, last_group, cplx_matrices,
                   cplx_group_ranks, num_generators, do_short, isfound,
                   ERR_MESSAGE, answer>>
    /\ Unchanged

\* the elimination of eliminate_gens on any invertible entry of that row
Pivot ==
    /\ pc = "pivot"
    /\ \E inc_gen \in UnitColumns(group, gen) :
          LET Eliminated(e) ==
                  IF e.err # "" THEN Bailout(e.err)
                  ELSE /\ cplx_matrices' = e.mats
                       /\ num_generators' =
                              [num_generators EXCEPT ![group - 1] = @ - 1,
                                                     ![group] = @ - 1]
                       /\ pc' = "any"
                       /\ UNCHANGED <<cplx_size, first_group, last_group,
                                      cplx_group_ranks, group, do_short,
                                      gen, isfound, ERR_MESSAGE, answer>>
          IN  Eliminated(EliminatePair(inc_gen,
                  get_v_entry(cplx_matrices[group - 1].rows[gen], inc_gen)))
    /\ Unchanged

NextO ==
    \/ Start \/ EnterEliminate \/ ScanRow \/ LeaveEliminate \/ Feed
    \/ Restart \/ Unpack \/ Pick \/ Pivot

SpecO == InitR /\ [][NextO]_vars

(***************************************************************************)
(* The reducer: what reduce_s_complex_U returns against what it was given. *)
(***************************************************************************)
\* the number of generators the answer reports for group g
ReturnedRank(g) == answer[1][g + 1]

\* the (i, j) cell of the returned matrix from group g to group g + 1, zero
\* where the answer holds no matrix
ReturnedCell(g, i, j) ==
    IF answer[2][g + 1] = NoMatrix THEN Uzero
    ELSE <<answer[2][g + 1][j][i], answer[3][g + 1][j][i]>>

\* the (i, j) cell of the product of the returned matrices g + 1 and g
ReturnedProduct(g, i, j) ==
    USum([k \in 1..ReturnedRank(g + 1) |->
             UTimes(ReturnedCell(g + 1, i, k), ReturnedCell(g, k, j))],
         ReturnedRank(g + 1))

\* C2: for every input complex with D[g+1] * D[g] = 0 for all g, the
\* matrices that survive the reduction, restricted to the rows and columns
\* that are not tombstoned (the matrices of the answer), satisfy
\* D'[g+1] * D'[g] = 0 for all g.
C2_SquareZeroPreserved ==
    (pc = "done" /\ SquareZero(complex)) =>
        \A g \in 0..(args.c_size - 3) :
            \A i \in 1..ReturnedRank(g + 2), j \in 1..ReturnedRank(g) :
                ReturnedProduct(g, i, j) = Uzero

\* a matrix over Z[t]/(t^2 = 1) as an integer matrix: a + b t acts on the
\* basis 1, t as the block (a b / b a)
Expand(Cell(_, _), r, c) ==
    [i \in 1..(2 * r), j \in 1..(2 * c) |->
        LET v == Cell((i + 1) \div 2, (j + 1) \div 2)
        IN  IF i % 2 = j % 2 THEN v[1] ELSE v[2]]

\* the determinant of the square submatrix of A on the rows and columns
\* listed, by expansion along its first row
RECURSIVE Det(_, _, _)
Det(A, rows, cols) ==
    IF rows = <<>> THEN 1
    ELSE LET term[j \in 0..Len(cols)] ==
                 IF j = 0 THEN 0
                 ELSE term[j - 1]
                      + (IF j % 2 = 1 THEN 1 ELSE -1) * A[rows[1], cols[j]]
                        * Det(A, Tail(rows), RemoveAt(cols, j))
         IN  term[Len(cols)]

Increasing(k, n) ==
    {s \in [1..k -> 1..n] : \A i \in 1..(k - 1) : s[i] < s[i + 1]}

RECURSIVE Gcd(_, _)
Gcd(a, b) == IF b = 0 THEN a ELSE Gcd(b, a % b)

RECURSIVE GcdSet(_)
GcdSet(S) ==
    IF S = {} THEN 0
    ELSE LET x == CHOOSE y \in S : TRUE
         IN  Gcd(IF x < 0 THEN -x ELSE x, GcdSet(S \ {x}))

\* the k-th determinantal divisor of the r x c integer matrix A
Divisor(A, r, c, k) ==
    IF k = 0 THEN 1
    ELSE GcdSet({Det(A, rs, cs) : rs \in Increasing(k, r),
                                   cs \in Increasing(k, c)})

\* the invariant factors of A, 0 from its rank on
InvariantFactors(A, r, c) ==
    LET n == IF r < c THEN r ELSE c
        d == [k \in 0..n |-> Divisor(A, r, c, k)]
    IN  [k \in 1..n |-> IF d[k] = 0 THEN 0 ELSE d[k] \div d[k - 1]]

\* ranks and torsion of the homology of the complex with Rank(g) generators
\* in group g (g in 0..size - 1) and differential Cell(g, _, _) from group g
\* to group g + 1, each group taken as a free abelian group on the
\* generators and their multiples by t
Profile(Rank(_), Cell(_, _, _), size) ==
    LET f == [g \in 0..(size - 2) |->
                 InvariantFactors(
                     Expand(LAMBDA i, j : Cell(g, i, j), Rank(g + 1), Rank(g)),
                     2 * Rank(g + 1), 2 * Rank(g))]
        rk(g) == IF g < 0 \/ g > size - 2 THEN 0
                 ELSE Len(SelectSeq(f[g], LAMBDA x : x # 0))
        tor(g) == IF g < 0 THEN <<>>
                  ELSE SelectSeq(f[g], LAMBDA x : x > 1)
    IN  [g \in 0..(size - 1) |->
            [free |-> 2 * Rank(g) - rk(g) - rk(g - 1),
             torsion |-> tor(g - 1)]]

InputProfile ==
    Profile(LAMBDA g : complex.ranks[g + 1],
            LAMBDA g, i, j : complex.D[g + 1][<<i, j>>],
            args.c_size)

ReturnedProfile ==
    Profile(ReturnedRank, ReturnedCell, args.c_size)

\* the complexes whose profiles are computed: at most two generators a group
IsSmall(c) == \A k \in 1..Len(c.ranks) : c.ranks[k] <= 2

\* C3: for every input complex with D[g+1] * D[g] = 0, the ranks-and-torsion
\* profile of the homology of the reduced complex that reduce returns
\* equals that of the input complex.
C3_HomologyPreserved ==
    (pc = "done" /\ SquareZero(complex) /\ IsSmall(complex)) =>
        ReturnedProfile = InputProfile


\* the pivot the round of the for loop of eliminate_gens for gen finds
PivotOf == find_v_unit(cplx_matrices[group - 1].rows[gen])

\* that round goes on to eliminate: the row is there, the pass takes it and
\* it holds a pivot
ScansPivot ==
    /\ pc = "scan"
    /\ gen <= cplx_group_ranks[group]
    /\ cplx_matrices[group - 1].rows[gen].num_entries # -1
    /\ ~(do_short /\ cplx_matrices[group - 1].rows[gen].num_entries > 2)
    /\ PivotOf.ret # 0

\* the column sweep of that round: [ret, matr]
SweepOf ==
    LET row == cplx_matrices[group - 1].rows[gen]
    IN  SweepLoop(cplx_matrices[group - 1], gen, PivotOf.ret,
                  <<Wrap(-PivotOf.val[1]), Wrap(-PivotOf.val[2])>>,
                  IF row.entries = <<>> THEN 0 ELSE row.entries[1].index)

\* a library call of that round reports failure, or one of its two tests
\* of num_entries fails
RoundFails ==
    LET Second(k2) == ~k2.ok
        First(k1) ==
            \/ ~k1.ok
            \/ k1.mats[group - 1].rows[gen].num_entries # 0
            \/ Second(kill_gen(k1.mats, group, gen))
        Swept(sw) ==
            \/ sw.ret # 0
            \/ sw.matr.rows[gen].num_entries # 1
            \/ First(kill_gen([cplx_matrices EXCEPT ![group - 1] = sw.matr],
                              group - 1, PivotOf.ret))
    IN  Swept(SweepOf)

\* the step reduce is about to make meets a failure: while unpacking, while
\* eliminating or while repacking
StepFails ==
    \/ pc = "elim" /\ ~LazyInit(cplx_matrices).ok
    \/ ScansPivot /\ RoundFails
    \/ /\ pc = "feed"
       /\ feed2pari(cplx_size, first_group, last_group, num_generators,
                    cplx_matrices).err # ""

\* reduce has given the complex up and surfaced an error, with no answer
Aborted ==
    /\ pc = "error"
    /\ ERR_MESSAGE # ""
    /\ answer = <<>>
    /\ cplx_size = 0
    /\ cplx_matrices = <<>>
    /\ cplx_group_ranks = <<>>
    /\ num_generators = <<>>

\* C11: whenever a sparse-matrix call made during reduce reports failure or
\* an entry-count test fails, reduce deallocates the whole complex and
\* surfaces an error; after that it returns no ranks or matrices and does
\* not go on eliminating.
C11_NoPartialSuccess ==
    [][(StepFails => Aborted') /\ pc # "error"]_vars

\* reduce has stopped on a failed entry-count test
C11_Witness == Aborted /\ ERR_MESSAGE = GenError


\* the reduction in any order has come to its end: nothing is left to pivot on
Exhausted == pc = "any" /\ PivotRows = {}

\* C12: for any input complex, two runs of the reduction that differ only
\* in the order in which rows are scanned and pivots are chosen, each
\* continued until no elimination is possible, end with identical vectors
\* of live ranks: every order ends with the ranks reduce_s_complex_U
\* itself returned.
C12_PivotOrderIndependence ==
    Exhausted =>
        \A g \in 0..(cplx_size - 1) : num_generators[g] = answer[1][g + 1]

\* C12 (amended): for an input complex of at most two generators a group,
\* every order of scanning rows and choosing pivots, continued until no
\* elimination is possible, ends with the vector of live ranks that
\* reduce_s_complex_U returned.
C12_SmallOrderIndependence ==
    (Exhausted /\ IsSmall(complex)) =>
        \A g \in 0..(cplx_size - 1) : num_generators[g] = answer[1][g + 1]

\* another order than that of eliminate_gens has been followed to its end
\* on a small complex: a matrix that survives differs from the returned one
C12_Witness ==
    /\ Exhausted
    /\ IsSmall(complex)
    /\ \E g \in 0..(cplx_size - 2) :
          /\ answer[2][g + 1] # NoMatrix
          /\ matr2pari(cplx_matrices, num_generators, g).pari_matr
                 # <<answer[2][g + 1], answer[3][g + 1]>>


\* no row of any differential of c holds an entry of magnitude 1
NoUnitEntry(c) ==
    \A k \in 1..(Len(c.ranks) - 1) :
        \A i \in 1..c.ranks[k + 1], j \in 1..c.ranks[k] :
            ABSFUNC(c.D[k][<<i, j>>]) # 1

\* the answer holds the ranks and the matrices of the complex c
ReturnsUnchanged(c) ==
    /\ \A g \in 0..(Len(c.ranks) - 1) : ReturnedRank(g) = c.ranks[g + 1]
    /\ \A g \in 0..(Len(c.ranks) - 2) :
          \A i \in 1..c.ranks[g + 2], j \in 1..c.ranks[g + 1] :
              ReturnedCell(g, i, j) = c.D[g + 1][<<i, j>>]

\* C13: on an input complex in which no row of any boundary matrix holds an
\* entry of magnitude 1, reduce performs no elimination and returns the
\* input ranks and the input matrices unchanged: it does not stop on an
\* error, it kills no generator, and its answer is the input.
C13_Idempotence ==
    (NoUnitEntry(complex) /\ args = HostArgs(complex)) =>
        /\ pc \notin {"error", "undefined"}
        /\ pc \in {"elim", "scan", "feed"} =>
              \A g \in 0..(cplx_size - 1) :
                  num_generators[g] = complex.ranks[g + 1]
        /\ pc = "done" => ReturnsUnchanged(complex)


\* what reduce returns when no generator and no matrix is left
NothingLeft == <<<<0, 0, 0>>, <<NoMatrix, NoMatrix>>, <<NoMatrix, NoMatrix>>>>

\* C14: for the integer input of ranks [2, 3, 1] with D[0] = (1 0 / 0 1 /
\* 0 0) and D[1] = (0 0 1), reduce returns the reduced ranks [0, 1, 0] and
\* no surviving matrix.
C14_ScenarioS4 ==
    (pc = "done" /\ complex = S4Complex) =>
        answer = <<<<0, 1, 0>>, <<NoMatrix, NoMatrix>>, <<NoMatrix, NoMatrix>>>>

\* C14 (amended): for that input reduce returns the reduced ranks [0, 0, 0]
\* and no surviving matrix.
C14_ScenarioS4Ranks ==
    (pc = "done" /\ complex = S4Complex) => answer = NothingLeft

\* reduce has returned on the input of S4
C14_Witness == pc = "done" /\ complex = S4Complex /\ answer # <<>>


\* the invertible values the unit test is meant to find
Units == IF ring = "Z" THEN {1, -1} ELSE UnitVals

\* the values the matrix holds
StoredValues ==
    UNION {{vec.entries[p].value : p \in 1..Len(vec.entries)} :
              vec \in AllVectors(matr)}

\* C15: with mul((a,b),(c,d)) = (ac+bd, ad+bc) and the magnitude of the
\* library, a value of Z[t]/(t^2 = 1) has magnitude 1 exactly when it is one
\* of (1,0), (-1,0), (0,1), (0,-1), and every value of magnitude 1, the one
\* find_v_unit hands out included, has square (1,0); over the integers
\* magnitude 1 identifies exactly 1 and -1.
C15_UnitTestByMagnitude ==
    /\ \A v \in StoredValues :
          /\ ABSFUNC(v) = 1 <=> v \in Units
          /\ ABSFUNC(v) = 1 =>
                val_mult(v, v) = (IF ring = "Z" THEN 1 ELSE One)
    /\ (SuccessfulCall(FindOps) /\ last.ret # 0) =>
          /\ last.out \in Units
          /\ val_mult(last.out, last.out) = (IF ring = "Z" THEN 1 ELSE One)

(***************************************************************************)
(* C16.  put/get: after a successful put(r, c, v) on a live row r and a    *)
(* live column c, get(r, c) returns v; an existing entry is overwritten, a *)
(* missing one inserted, v = zero leaves no entry exactly as remove(r, c)  *)
(* would, and every cell other than (r, c) is unchanged.                   *)
(***************************************************************************)
\* every cell outside the set S of <<row, column>> pairs holds in m2 what it
\* holds in m, in the row's list and in the column's list
OtherCellsUnchanged(m, m2, S) ==
    \A r \in RowIds(m), c \in ColIds(m) :
        <<r, c>> \notin S =>
            /\ Dense(m2.rows[r], c) = Dense(m.rows[r], c)
            /\ Dense(m2.columns[c], r) = Dense(m.columns[c], r)
            /\ Cardinality(EntriesAt(m2.rows[r], c))
                 = Cardinality(EntriesAt(m.rows[r], c))
            /\ Cardinality(EntriesAt(m2.columns[c], r))
                 = Cardinality(EntriesAt(m.columns[c], r))

SameShape(m, m2) ==
    /\ m2.num_rows = m.num_rows
    /\ m2.num_cols = m.num_cols

InRange(m, r, c) == r \in RowIds(m) /\ c \in ColIds(m)

LiveCell(m, r, c) ==
    /\ InRange(m, r, c)
    /\ ~IsDeleted(m.rows[r])
    /\ ~IsDeleted(m.columns[c])

PutThenGet(m, m2, call) ==
    LET Got(g) == g.ret # -1 /\ g.val = call.val
    IN  /\ Got(get_m_entry(m2, call.i, call.j))
        /\ SameShape(m, m2)
        /\ LiveCell(m2, call.i, call.j)
        /\ IF is_zero(call.val)
           THEN /\ EntriesAt(m2.rows[call.i], call.j) = {}
                /\ EntriesAt(m2.columns[call.j], call.i) = {}
                /\ m2 = remove_m_entry(m, call.i, call.j).matr
           ELSE /\ Cardinality(EntriesAt(m2.rows[call.i], call.j)) = 1
                /\ Cardinality(EntriesAt(m2.columns[call.j], call.i)) = 1
                /\ Dense(m2.rows[call.i], call.j) = call.val
                /\ Dense(m2.columns[call.j], call.i) = call.val
        /\ OtherCellsUnchanged(m, m2, {<<call.i, call.j>>})

C16_PutGet ==
    [][(/\ last'.op = "put"
        /\ last'.ret # -1
        /\ ~failed
        /\ LiveCell(matr, last'.i, last'.j))
       => PutThenGet(matr, matr', last')]_vars

\* a successful put of a non-zero value at a cell behind the head of its
\* row's list, which get reads back
C16_Witness ==
    /\ SuccessfulCall({"put"})
    /\ nops > 1
    /\ ~is_zero(last.val)
    /\ Len(matr.rows[last.i].entries) > 1
    /\ matr.rows[last.i].entries[1].index # last.j
    /\ get_m_entry(matr, last.i, last.j).val = last.val

(***************************************************************************)
(* C17.  remove(r, c) on a live row r and a live column c returns the      *)
(* value stored at (r, c) before the call, zero if there was none;         *)
(* afterwards get(r, c) is zero, the counts of row r and column c have     *)
(* each dropped by one exactly when an entry existed, and every other cell *)
(* is unchanged.                                                           *)
(***************************************************************************)
Dropped(before, after, existed) ==
    after.num_entries = before.num_entries - (IF existed THEN 1 ELSE 0)

RemoveReturnsOld(m, m2, call) ==
    LET Gone(g) == g.ret # -1 /\ is_zero(g.val)
    IN  /\ call.ret # -1
        /\ call.out = Dense(m.rows[call.i], call.j)
        /\ call.out = Dense(m.columns[call.j], call.i)
        /\ Gone(get_m_entry(m2, call.i, call.j))
        /\ EntriesAt(m2.rows[call.i], call.j) = {}
        /\ EntriesAt(m2.columns[call.j], call.i) = {}
        /\ Dropped(m.rows[call.i], m2.rows[call.i],
                   EntriesAt(m.rows[call.i], call.j) # {})
        /\ Dropped(m.columns[call.j], m2.columns[call.j],
                   EntriesAt(m.columns[call.j], call.i) # {})
        /\ SameShape(m, m2)
        /\ OtherCellsUnchanged(m, m2, {<<call.i, call.j>>})

C17_Remove ==
    [][(/\ last'.op = "remove"
        /\ ~failed
        /\ LiveCell(matr, last'.i, last'.j))
       => RemoveReturnsOld(matr, matr', last')]_vars

\* a remove has returned a stored value and left other entries in the row
C17_Witness ==
    /\ SuccessfulCall({"remove"})
    /\ ~is_zero(last.out)
    /\ matr.rows[last.i].entries # <<>>
    /\ EntriesAt(matr.rows[last.i], last.j) = {}

(***************************************************************************)
(* C18.  erase_row(r, tombstone?) on a live row r: afterwards row r has no *)
(* entries, no column holds an entry at index r, every cell outside row r  *)
(* is unchanged, and row r is tombstoned iff tombstoning was requested     *)
(* (otherwise it is an ordinary empty row with count 0); erase_col is the  *)
(* symmetric statement.                                                    *)
(***************************************************************************)
\* vec is cleared: no entries, tombstoned iff do_del, count 0 otherwise
Cleared(vec, do_del) ==
    /\ vec.entries = <<>>
    /\ IsDeleted(vec) <=> do_del
    /\ ~do_del => vec.num_entries = 0

\* the tombstones of the vectors other than the erased one stay as they are
OtherTombstonesKept(m, m2, rows, cols) ==
    /\ \A r \in RowIds(m) \ rows :
          IsDeleted(m2.rows[r]) <=> IsDeleted(m.rows[r])
    /\ \A c \in ColIds(m) \ cols :
          IsDeleted(m2.columns[c]) <=> IsDeleted(m.columns[c])

ErasedRow(m, m2, call) ==
    /\ call.ret # -1
    /\ SameShape(m, m2)
    /\ Cleared(m2.rows[call.i], call.del)
    /\ \A c \in ColIds(m) : EntriesAt(m2.columns[c], call.i) = {}
    /\ OtherCellsUnchanged(m, m2, {call.i} \X ColIds(m))
    /\ OtherTombstonesKept(m, m2, {call.i}, {})

ErasedCol(m, m2, call) ==
    /\ call.ret # -1
    /\ SameShape(m, m2)
    /\ Cleared(m2.columns[call.j], call.del)
    /\ \A r \in RowIds(m) : EntriesAt(m2.rows[r], call.j) = {}
    /\ OtherCellsUnchanged(m, m2, RowIds(m) \X {call.j})
    /\ OtherTombstonesKept(m, m2, {}, {call.j})

C18_Erase ==
    [][/\ (/\ last'.op = "erase_row"
           /\ ~failed
           /\ last'.i \in RowIds(matr)
           /\ ~IsDeleted(matr.rows[last'.i]))
          => ErasedRow(matr, matr', last')
       /\ (/\ last'.op = "erase_col"
           /\ ~failed
           /\ last'.j \in ColIds(matr)
           /\ ~IsDeleted(matr.columns[last'.j]))
          => ErasedCol(matr, matr', last')]_vars

\* a row has been erased without a tombstone and is an empty live row, while
\* another row still holds an entry
C18_Witness ==
    /\ SuccessfulCall({"erase_row"})
    /\ ~last.del
    /\ nops = MaxOps
    /\ matr.rows[last.i].num_entries = 0
    /\ \E r \in RowIds(matr) : matr.rows[r].entries # <<>>

(***************************************************************************)
(* C19.  find_unit_in_vector(v) on a live vector returns the smallest      *)
(* index whose entry has magnitude 1 together with that entry's value,     *)
(* returns 0 when no entry has magnitude 1, and leaves the vector          *)
(* unchanged.                                                              *)
(***************************************************************************)
\* the vector a find_unit call was made on
Searched(m, call) ==
    IF call.op = "find_unit_row" THEN m.rows[call.i] ELSE m.columns[call.j]

UnitIndices(vec) ==
    {vec.entries[p].index :
        p \in {q \in 1..Len(vec.entries) : Magnitude(vec.entries[q].value) = 1}}

FoundFirstUnit(vec, call) ==
    IF UnitIndices(vec) = {}
    THEN call.ret = 0
    ELSE /\ call.ret \in UnitIndices(vec)
         /\ \A ind \in UnitIndices(vec) : call.ret <= ind
         /\ call.out = Dense(vec, call.ret)
         /\ Magnitude(call.out) = 1

C19_FindUnit ==
    [][(/\ last'.op \in FindOps
        /\ ~failed
        /\ ~IsDeleted(Searched(matr, last')))
       => /\ FoundFirstUnit(Searched(matr, last'), last')
          /\ matr' = matr]_vars

\* a search of a vector with two entries of magnitude 1 has returned the
\* first of them
C19_Witness ==
    /\ SuccessfulCall(FindOps)
    /\ Cardinality(UnitIndices(Searched(matr, last))) > 1
    /\ last.ret = Searched(matr, last).entries[1].index
    /\ last.out = Searched(matr, last).entries[1].value

(***************************************************************************)
(* C20.  add_rows / add_cols return value: a successful call returns the   *)
(* maximum magnitude over the entries it created or updated in the target  *)
(* vector, the values r1[i] + s*r2[i] at the indices i where r2 has an     *)
(* entry; it returns 0 when r2 is empty and -1 only when the call failed.  *)
(***************************************************************************)
\* the indices at which the vector c.j added to c.i holds an entry
Touched(m, c) ==
    {k \in 1..Len(Others(m, c.op)) : EntriesAt(Family(m, c.op)[c.j], k) # {}}

\* the largest magnitude among the exact sums at the touched indices
MaxMagnitude(m, c) ==
    IF Touched(m, c) = {} THEN 0
    ELSE LET mags == {Magnitude(ExactSum(m, c, k)) : k \in Touched(m, c)}
         IN  CHOOSE x \in mags : \A y \in mags : y <= x

C20_AddReturnsMaxMagnitude ==
    [][(/\ last'.op \in AddOps
        /\ ~failed
        /\ last'.i # last'.j
        /\ LiveOperands(matr, last')
        /\ last'.ret # -1)
       => last'.ret = MaxMagnitude(matr, last')]_vars

\* the same for the calls in which no value exceeds the magnitude bound
C20_MaxMagnitudeInBounds ==
    [][(/\ last'.op \in AddOps
        /\ ~failed
        /\ last'.i # last'.j
        /\ LiveOperands(matr, last')
        /\ NoValueExceeds(matr, last')
        /\ last'.ret # -1)
       => last'.ret = MaxMagnitude(matr, last')]_vars

(***************************************************************************)
(* C21.  Out-of-range inputs fail: get, put, remove, erase_row, erase_col, *)
(* add_rows and add_cols called with a row index outside 1..num_rows or a  *)
(* column index outside 1..num_cols report failure and leave the matrix    *)
(* unchanged; init(R, C) with R < 1 or C < 1 reports failure.              *)
(***************************************************************************)
\* the call c names a row or a column the matrix m does not have
OutOfRange(m, c) ==
    CASE c.op \in {"get", "put", "remove"} ->
             c.i \notin RowIds(m) \/ c.j \notin ColIds(m)
      [] c.op = "erase_row" -> c.i \notin RowIds(m)
      [] c.op = "erase_col" -> c.j \notin ColIds(m)
      [] c.op = "add_rows" -> c.i \notin RowIds(m) \/ c.j \notin RowIds(m)
      [] c.op = "add_cols" -> c.i \notin ColIds(m) \/ c.j \notin ColIds(m)
      [] OTHER -> FALSE

C21_OutOfRangeFails ==
    [][/\ OutOfRange(matr, last') => (last'.ret = -1 /\ matr' = matr)
       /\ (last'.op = "init" /\ (last'.i < 1 \/ last'.j < 1))
             => last'.ret = -1]_vars

\* an add_rows naming row num_rows + 1 has failed on a matrix that holds an
\* entry
C21_Witness ==
    /\ last.op = "add_rows"
    /\ last.i \in RowIds(matr)
    /\ last.j = matr.num_rows + 1
    /\ last.ret = -1
    /\ \E r \in RowIds(matr) : matr.rows[r].entries # <<>>

(***************************************************************************)
(* C22.  The empty complex is a no-op, not an error: for an input in which *)
(* every rank is 0, reduce performs no elimination and materializes no     *)
(* matrix, and returns all-zero ranks and the zero placeholder for every   *)
(* matrix.                                                                 *)
(***************************************************************************)
EmptyInput == \A i \in 1..args.c_size : args.c_ranks[i] = 0

\* what feed2pari builds before it looks at any group
EmptyAnswer ==
    <<[i \in 1..args.c_size |-> 0],
      [i \in 1..(args.c_size - 1) |-> NoMatrix],
      [i \in 1..(args.c_size - 1) |-> NoMatrix]>>

C22_EmptyComplexIsNoOp ==
    EmptyInput =>
        /\ pc \in {"call", "done"}
        /\ ERR_MESSAGE = ""
        /\ \A k \in DOMAIN cplx_matrices : cplx_matrices[k] = NullMatrix
        /\ pc = "done" => answer = EmptyAnswer

C22_Witness == EmptyInput /\ pc = "done" /\ answer = EmptyAnswer

(***************************************************************************)
(* C23.  Output of reduce: the returned rank of every group g is live[g];  *)
(* for every g with live[g] > 0 and live[g+1] > 0 the returned matrix for  *)
(* D[g] has shape live[g+1] x live[g] and its (j, i) entry is the value    *)
(* stored at the j-th live row and the i-th live column of D[g], in        *)
(* increasing index order; every matrix with no live row or no live column *)
(* is returned as the scalar zero placeholder.                             *)
(***************************************************************************)
\* the indices of the vectors of vecs that are not deleted, in increasing order
LiveIndices(vecs) ==
    SelectSeq([k \in 1..Len(vecs) |-> k], LAMBDA k : ~IsDeleted(vecs[k]))

\* component comp of the live part of m as a t_MAT: a sequence of columns
LivePart(m, comp) ==
    [i \in 1..Len(LiveIndices(m.columns)) |->
        [j \in 1..Len(LiveIndices(m.rows)) |->
            Dense(m.rows[LiveIndices(m.rows)[j]],
                  LiveIndices(m.columns)[i])[comp]]]

\* vec is what feed2pari returns for the generators live and the matrices mats
IsOutputOf(vec, size, live, mats) ==
    /\ \A g \in 0..(size - 1) : vec[1][g + 1] = live[g]
    /\ \A g \in 0..(size - 2) :
          IF live[g] > 0 /\ live[g + 1] > 0
          THEN /\ Len(LiveIndices(mats[g].columns)) = live[g]
               /\ Len(LiveIndices(mats[g].rows)) = live[g + 1]
               /\ vec[2][g + 1] = LivePart(mats[g], 1)
               /\ vec[3][g + 1] = LivePart(mats[g], 2)
          ELSE /\ vec[2][g + 1] = NoMatrix
               /\ vec[3][g + 1] = NoMatrix

C23_OutputOfReduce ==
    [][(pc = "feed" /\ pc' = "done")
       => IsOutputOf(answer', cplx_size, num_generators, cplx_matrices)]_vars

\* reduce has returned a matrix after an elimination in its two groups
C23_Witness ==
    /\ pc = "done"
    /\ \E g \in 1..(args.c_size - 1) :
          /\ answer[2][g] # NoMatrix
          /\ answer[1][g] < args.c_ranks[g]
          /\ answer[1][g + 1] < args.c_ranks[g + 1]

(***************************************************************************)
(* C24.  Teardown is idempotent and complete: destroying a matrix that was *)
(* never initialized or that has already been destroyed frees nothing and  *)
(* is safe, and teardown releases every allocated entry, vector array and  *)
(* matrix exactly once, tombstoned vectors included.                       *)
(***************************************************************************)
\* the blocks the matrix m owns: two arrays and the entries of every vector,
\* none when m was never initialized or has been destroyed
Owned(m) ==
    IF m.rows = <<>> \/ IsFreed(m.rows) THEN 0
    ELSE 2 + kill_s_vectors(m.rows, 1) + kill_s_vectors(m.columns, 1)

C24_TeardownIdempotent ==
    [][last'.op = "destroy"
       => /\ last'.ret = Owned(matr)
          /\ Owned(matr') = 0]_vars

\* the same for the first destroy of a matrix
C24_FirstTeardownComplete ==
    [][(last'.op = "destroy" /\ last.op # "destroy")
       => /\ last'.ret = Owned(matr)
          /\ Owned(matr') = 0]_vars

(***************************************************************************)
(* C25.  Sweep postcondition in eliminate_gens: for every row gen in which *)
(* find_v_unit returned a pivot (column p, value u), after the column      *)
(* sweep row gen contains exactly one entry, at column p with value u, and *)
(* after kill_gen(g - 1, p) row gen is empty; hence the failure 'generator *)
(* is not killed cleanly' is unreachable from a well-formed input.         *)
(***************************************************************************)
WellFormedInput == args = HostArgs(complex)

\* row gen after the sweep sw and after the kill_gen that follows it
SweepLeavesPivot ==
    LET Killed(k1) ==
            k1.ok => k1.mats[group - 1].rows[gen].entries = <<>>
        Swept(sw) ==
            sw.ret = 0 =>
                /\ sw.matr.rows[gen].num_entries = 1
                /\ sw.matr.rows[gen].entries
                     = <<[index |-> PivotOf.ret, value |-> PivotOf.val]>>
                /\ Killed(kill_gen([cplx_matrices EXCEPT
                                        ![group - 1] = sw.matr],
                                   group - 1, PivotOf.ret))
    IN  Swept(SweepOf)

C25_SweepPostcondition ==
    WellFormedInput =>
        /\ ERR_MESSAGE # GenError
        /\ ScansPivot => SweepLeavesPivot

\* the same for the pivots that are invertible: 1, -1, t and -t
C25_SweepWithInvertiblePivot ==
    (WellFormedInput /\ ScansPivot /\ PivotOf.val \in UnitVals)
        => SweepLeavesPivot

(***************************************************************************)
(* C26.  Effect of one elimination at group g with pivot (gen, p): column  *)
(* p of D[g-1] and row p of D[g-2] (when group g-1 is not first_group) are *)
(* tombstoned and empty, row gen of D[g-1] and column gen of D[g] (when g  *)
(* is not last_group) are tombstoned and empty, live[g-1] and live[g] are  *)
(* each decremented by exactly one, and live[] of every other group and    *)
(* every matrix other than D[g-2], D[g-1], D[g] are unchanged.             *)
(***************************************************************************)
\* the round of eliminate_gens for gen has eliminated the pair (gen, p)
Eliminates == ScansPivot /\ pc' = "scan"

EffectOfElimination(p, mats) ==
    /\ mats[group - 1].columns[p] = Tombstone
    /\ group - 1 > first_group => mats[group - 2].rows[p] = Tombstone
    /\ mats[group - 1].rows[gen] = Tombstone
    /\ group < last_group => mats[group].columns[gen] = Tombstone
    /\ \A k \in DOMAIN mats \ {group - 2, group - 1, group} :
          mats[k] = cplx_matrices[k]

IndicesOf(vec) == [q \in 1..Len(vec.entries) |-> vec.entries[q].index]

\* the sweep of row gen of m from the entry at column cur on, pivot column
\* inc and coefficient coeff, followed call by call:
\* [safe, complete, visited]
RECURSIVE SweepTrace(_, _, _, _)
SweepTrace(m, inc, coeff, cur) ==
    IF cur = 0 THEN [safe |-> TRUE, complete |-> TRUE, visited |-> <<>>]
    ELSE IF EntriesAt(m.rows[gen], cur) = {}
    THEN [safe |-> FALSE, complete |-> FALSE, visited |-> <<>>]
    ELSE
    LET q == CHOOSE x \in EntriesAt(m.rows[gen], cur) : TRUE
        row == m.rows[gen].entries
        succ == IF q < Len(row) THEN row[q + 1] ELSE [index |-> 0]
        Called(a) ==
            IF a.ret = -1
            THEN [safe |-> TRUE, complete |-> FALSE, visited |-> <<cur>>]
            ELSE LET Rest(t) ==
                         [safe |->
                              /\ t.safe
                              /\ \A k \in ColIds(m) \ {cur} :
                                    Dense(a.matr.rows[gen], k)
                                       = Dense(m.rows[gen], k)
                              /\ succ.index # 0 =>
                                    /\ EntriesAt(a.matr.rows[gen],
                                                 succ.index) # {}
                                    /\ Dense(a.matr.rows[gen], succ.index)
                                          = succ.value,
                          complete |-> t.complete,
                          visited |-> <<cur>> \o t.visited]
                 IN  Rest(SweepTrace(a.matr, inc, coeff, succ.index))
    IN  IF cur = inc THEN Called([ret |-> 0, matr |-> m])
        ELSE Called(add_m_cols(m, cur, inc, mult_Uvals(row[q].value, coeff)))

SweepIsSafe ==
    LET row == cplx_matrices[group - 1].rows[gen]
        Traced(t) ==
            /\ t.safe
            /\ t.complete => t.visited = IndicesOf(row)
    IN  Traced(SweepTrace(cplx_matrices[group - 1], PivotOf.ret,
                          <<Wrap(-PivotOf.val[1]), Wrap(-PivotOf.val[2])>>,
                          row.entries[1].index))

C27_TraversalSafety ==
    /\ pc # "undefined"
    /\ ScansPivot => SweepIsSafe

\* a sweep over a row of three entries whose pivot is not the last of them
C27_Witness ==
    /\ ScansPivot
    /\ cplx_matrices[group - 1].rows[gen].num_entries > 2
    /\ PivotOf.ret < cplx_matrices[group - 1].rows[gen].entries[3].index
    /\ SweepOf.ret = 0

(***************************************************************************)
(* C28.  Pass ordering of reduce: groups are processed in strictly         *)
(* increasing order from first_group + 1 to last_group; for each group     *)
(* every short call of eliminate_gens precedes every full call, the short  *)
(* pass ends at the first short call that reports no progress, the full    *)
(* pass at the first full call that reports no progress, and every row     *)
(* eliminated by a short call had at most 2 entries when it was selected.  *)
(***************************************************************************)
\* eliminate_gens is running, or about to be called, for group
InEliminate == pc \in {"elim", "scan"}

\* eliminate_gens returns to reduce_s_complex_U
ReturnsFromEliminate == pc = "scan" /\ pc' \in {"elim", "feed"}

C28_PassOrdering ==
    [][/\ InEliminate => (first_group + 1 <= group /\ group <= last_group)
       /\ (pc = "call" /\ pc' = "elim") =>
              (group' = first_group' + 1 /\ do_short')
       /\ (InEliminate /\ InEliminate') =>
              /\ group' \in {group, group + 1}
              /\ group' = group + 1 => (~do_short /\ do_short')
              /\ group' = group => (~do_short => ~do_short')
       /\ ReturnsFromEliminate =>
              /\ isfound => (pc' = "elim" /\ UNCHANGED <<group, do_short>>)
              /\ (~isfound /\ do_short) =>
                     (pc' = "elim" /\ group' = group /\ ~do_short')
              /\ (~isfound /\ ~do_short) =>
                     /\ group' = group + 1
                     /\ pc' = "feed" <=> group = last_group
       /\ ~ReturnsFromEliminate => (InEliminate => UNCHANGED <<group, do_short>>)
       /\ (Eliminates /\ do_short) =>
              cplx_matrices[group - 1].rows[gen].num_entries <= 2]_vars

\* a full call for the second group has reported progress and is repeated
C28_Witness ==
    /\ pc = "elim"
    /\ ~do_short
    /\ isfound
    /\ group = first_group + 2

(***************************************************************************)
(* C29.  eliminate_gens(g, short_only) returns true if and only if it      *)
(* performed at least one elimination; it returns false exactly when, on   *)
(* entry, no live row of D[g-1] (only rows with at most 2 entries when     *)
(* short_only) contains an entry of magnitude 1, and in that case it       *)
(* changes neither any matrix nor live[].                                  *)
(***************************************************************************)
\* row r of the matrix the call scans is one the call eliminates when it
\* comes to it: live, taken by the pass, with an entry of magnitude 1
Eligible(r) ==
    /\ ~IsDeleted(cplx_matrices[group - 1].rows[r])
    /\ do_short => cplx_matrices[group - 1].rows[r].num_entries <= 2
    /\ UnitIndices(cplx_matrices[group - 1].rows[r]) # {}

C29_EliminateReportsProgress ==
    [][/\ (pc = "elim" /\ pc' = "scan") => ~isfound'
       /\ (pc = "scan" /\ pc' = "scan") =>
              /\ isfound' <=> (isfound \/ Eliminates)
              /\ Eliminates <=> Eligible(gen)
              /\ ~Eliminates =>
                     UNCHANGED <<cplx_matrices, num_generators>>
       /\ ReturnsFromEliminate =>
              UNCHANGED <<cplx_matrices, num_generators, isfound>>
       /\ (pc = "scan" /\ ~isfound) =>
              \A r \in 1..(gen - 1) : ~Eligible(r)]_vars

\* a short call is about to report no progress although a row of more than
\* two entries holds an entry of magnitude 1
C29_Witness ==
    /\ pc = "scan"
    /\ gen > cplx_group_ranks[group]
    /\ ~isfound
    /\ do_short
    /\ \E r \in 1..cplx_group_ranks[group] :
          /\ cplx_matrices[group - 1].rows[r].num_entries > 2
          /\ UnitIndices(cplx_matrices[group - 1].rows[r]) # {}

(***************************************************************************)
(* C30.  Lazy materialization: every boundary matrix D[k] with             *)
(* first_group <= k < last_group is built from the packed input exactly    *)
(* once, and this happens before the first sparse-matrix operation that    *)
(* touches it; when eliminate_gens runs for group g, those of D[g-2],      *)
(* D[g-1], D[g] that exist are all materialized.                           *)
(***************************************************************************)
Materialized(mats, k) == mats[k].rows # <<>>

\* the matrices eliminate_gens works on for group
Needed ==
    {k \in {group - 2, group - 1, group} :
        first_group <= k /\ k < last_group}

\* m holds the differential out of group k of the input, in both views
IsInputMatrix(m, k) ==
    /\ m.num_rows = complex.ranks[k + 2]
    /\ m.num_cols = complex.ranks[k + 1]
    /\ \A r \in RowIds(m), c \in ColIds(m) :
          /\ Dense(m.rows[r], c) = complex.D[k + 1][<<r, c>>]
          /\ Dense(m.columns[c], r) = complex.D[k + 1][<<r, c>>]
    /\ \A vec \in AllVectors(m) : WellFormed(vec)

C30_LazyMaterialization ==
    [][/\ pc = "scan" => \A k \in Needed : Materialized(cplx_matrices, k)
       /\ pc = "feed" =>
              \A k \in first_group..(last_group - 1) :
                  Materialized(cplx_matrices, k)
       /\ pc' \in {"elim", "scan", "feed"} =>
              \A k \in DOMAIN cplx_matrices :
                  IF Materialized(cplx_matrices, k)
                  THEN /\ Materialized(cplx_matrices', k)
                       /\ pc = "elim" => cplx_matrices'[k] = cplx_matrices[k]
                  ELSE Materialized(cplx_matrices', k) =>
                          /\ pc = "elim"
                          /\ k \in Needed
                          /\ WellFormedInput =>
                                 IsInputMatrix(cplx_matrices'[k], k)]_vars

\* eliminate_gens for the first group after first_group has built both the
\* matrix it scans and the one out of its group, which holds entries
C30_Witness ==
    /\ pc = "scan"
    /\ group = 1
    /\ first_group = 0
    /\ last_group = 2
    /\ gen = 1
    /\ Materialized(cplx_matrices, 0)
    /\ Materialized(cplx_matrices, 1)
    /\ IsInputMatrix(cplx_matrices[1], 1)
    /\ \E r \in RowIds(cplx_matrices[1]) :
          cplx_matrices[1].rows[r].entries # <<>>

(***************************************************************************)
(* Failure atomicity.  Failing(m, c) says that call c, made on matrix m,   *)
(* is a mutating call that reported failure.                               *)
(***************************************************************************)
Failing(c) == c.op \in MutatingOps /\ c.ret = -1

\* the vector a mutating call tests first: the row for put and remove, the
\* erased vector for an erase, both operands for add_rows and add_cols
FirstTested(m, c) ==
    CASE c.op \in {"put", "remove"} -> {m.rows[c.i]}
      [] OTHER -> OperandVectors(m, c)

(***************************************************************************)
(* C31.  Failure atomicity: while every call so far has succeeded, a put,  *)
(* remove, erase_row, erase_col, add_rows or add_cols that reports failure *)
(* leaves the matrix exactly as it was before the call.                    *)
(***************************************************************************)
C31_FailureAtomicity ==
    [][(~failed /\ Failing(last')) => matr' = matr]_vars

(***************************************************************************)
(* C31, what does hold: a mutating call that fails because the vector it   *)
(* tests first is deleted, or a put that fails on the magnitude of its     *)
(* value, leaves the matrix as it was.                                     *)
(***************************************************************************)
C31_EarlyFailureAtomic ==
    [][(/\ Failing(last')
        /\ \/ \E vec \in FirstTested(matr, last') : IsDeleted(vec)
           \/ last'.op = "put" /\ is_too_big(last'.val))
       => matr' = matr]_vars

(***************************************************************************)
(* Inner empty groups.  InnerEmptyGroup says that the input has a group of *)
(* rank 0 strictly between its first and its last non-empty group.         *)
(***************************************************************************)
NonEmptyGroups == {g \in 1..Len(complex.ranks) : complex.ranks[g] > 0}

InnerEmptyGroup ==
    \E g \in 1..Len(complex.ranks) :
        /\ complex.ranks[g] = 0
        /\ \E f \in NonEmptyGroups : f < g
        /\ \E l \in NonEmptyGroups : l > g

\* reduce has ended in bailout() or in undefined behaviour
FatalError == pc \in {"error", "undefined"}

(***************************************************************************)
(* C32.  reduce completes without a fatal error on an input whose ranks    *)
(* are non-negative and whose packed entries have in-range indices and     *)
(* which has a group of rank 0 strictly between first_group and            *)
(* last_group.                                                             *)
(***************************************************************************)
C32_InnerEmptyGroupCompletes ==
    (WellFormedInput /\ InnerEmptyGroup) => ~FatalError

(***************************************************************************)
(* C32, what does hold: on a well-formed input without an inner empty      *)
(* group the only fatal error reduce can end in is 'generator is not       *)
(* killed cleanly', and every input with an inner empty group is rejected  *)
(* by init_s_matrix as soon as eliminate_gens is entered.                  *)
(***************************************************************************)
C32_FatalErrorsOfReduce ==
    /\ (WellFormedInput /\ FatalError /\ ~InnerEmptyGroup)
           => (pc = "error" /\ ERR_MESSAGE = GenError)
    /\ (WellFormedInput /\ InnerEmptyGroup /\ pc \notin {"call", "elim"})
           => (pc = "error" /\ ERR_MESSAGE = LibraryError)

(***************************************************************************)
(* The consistency checker.  check_v_data walks one vector and compares    *)
(* each entry with the orthogonal family; check_m_data calls it for every  *)
(* row and then for every column, with num_rows as max_index both times.   *)
(***************************************************************************)
\* the for loop of check_v_data from position p on, oldind the index of the
\* entry before: 0 when it reaches the end, -1 at the first ERRET_1
RECURSIVE CheckLoop(_, _, _, _, _, _)
CheckLoop(entries, p, oldind, max_index, v_ind, others) ==
    IF p > Len(entries) THEN 0
    ELSE LET eptr == entries[p]
         IN  IF eptr.index < 1 THEN -1
             ELSE IF eptr.index > max_index THEN -1
             ELSE IF eptr.index <= oldind THEN -1
             ELSE IF is_zero(eptr.value) THEN -1
             ELSE IF eptr.index > Len(others) THEN -2
             ELSE IF ~vals_equal(get_v_entry(others[eptr.index], v_ind),
                                 eptr.value) THEN -1
             ELSE CheckLoop(entries, p + 1, eptr.index, max_index, v_ind,
                            others)

\* 0, -1, or -2 for a read past the end of the orthogonal family
check_v_data(vec, max_index, v_ind, others) ==
    LET n_entries == IF vec.num_entries = -1 THEN 0 ELSE vec.num_entries
        Walked(lp) ==
            IF lp # 0 THEN lp
            ELSE IF Len(vec.entries) + 1 # n_entries + 1 THEN -1
            ELSE 0
    IN  IF vec.num_entries > max_index THEN -1
        ELSE IF vec.num_entries < -1 THEN -1
        ELSE IF vec.num_entries = -1 /\ vec.entries # <<>> THEN -1
        ELSE Walked(CheckLoop(vec.entries, 1, -1, max_index, v_ind, others))

\* the first result other than 0 among the checks of vecs[from..], else 0
RECURSIVE CheckVectors(_, _, _, _)
CheckVectors(vecs, from, max_index, others) ==
    IF from > Len(vecs) THEN 0
    ELSE LET Checked(c) ==
                 IF c # 0 THEN c
                 ELSE CheckVectors(vecs, from + 1, max_index, others)
         IN  Checked(check_v_data(vecs[from], max_index, from, others))

check_m_data(m) ==
    LET n_rows == m.num_rows
        Rows(c) ==
            IF c # 0 THEN c ELSE CheckVectors(m.columns, 1, n_rows, m.rows)
    IN  Rows(CheckVectors(m.rows, 1, n_rows, m.columns))

\* the caller runs the checker on its matrix
Check ==
    /\ nops < MaxOps
    /\ nops' = nops + 1
    /\ last' = Call("check", 0, 0, SM_zero, FALSE, check_m_data(matr),
                    SM_zero)
    /\ UNCHANGED <<ring, abs_min, matr, failed, rvars>>

NextC ==
    \/ Next
    \/ Check

SpecC == Init /\ [][NextC]_vars

\* invariants 1-3: bilateral consistency, well-formed vectors, deleted
\* vectors empty
Invariants123(m) ==
    /\ Bilateral(m)
    /\ \A vec \in AllVectors(m) : WellFormed(vec)
    /\ \A vec \in AllVectors(m) : IsDeleted(vec) => vec = Tombstone

\* no row holds an entry at a column index above the number of rows
RowsWithinRowCount(m) ==
    \A r \in RowIds(m) :
        \A p \in 1..Len(m.rows[r].entries) :
            m.rows[r].entries[p].index <= m.num_rows

(***************************************************************************)
(* C33.  check_m_data reports success exactly on the matrices that satisfy *)
(* invariants 1-3, in particular on every matrix reached from init(R, C)   *)
(* by successful calls, for C > R as well.                                 *)
(***************************************************************************)
C33_CheckerExact ==
    last.op = "check" => (last.ret = 0 <=> Invariants123(matr))

(***************************************************************************)
(* C33, what does hold: check_m_data reports success exactly on the        *)
(* matrices that satisfy invariants 1-3 and hold no entry in a column      *)
(* whose index exceeds the number of rows.                                 *)
(***************************************************************************)
C33_CheckerExactUpToRowCount ==
    last.op = "check" =>
        /\ last.ret \in {0, -1}
        /\ last.ret = 0 <=> (Invariants123(matr) /\ RowsWithinRowCount(matr))

(***************************************************************************)
(* Fully reduced matrices.                                                 *)
(***************************************************************************)
\* the vector holds an entry of magnitude 1
HasUnit(vec) ==
    \E p \in 1..Len(vec.entries) : ABSFUNC(vec.entries[p].value) = 1

\* no row of m that is not deleted holds an entry of magnitude 1
FullyReduced(m) ==
    \A r \in RowIds(m) : ~IsDeleted(m.rows[r]) => ~HasUnit(m.rows[r])

\* the matrices whose group the for loop of reduce has left behind
Processed ==
    {k \in first_group..(last_group - 1) :
        k + 1 < group /\ Materialized(cplx_matrices, k)}

(***************************************************************************)
(* C34.  Fully reduced output: while reduce works on a group, every matrix *)
(* whose group it has already processed has no entry of magnitude 1 in a   *)
(* row that is not tombstoned, so eliminations for later groups create     *)
(* none there; when reduce comes to return, this holds for every boundary  *)
(* matrix D[k], first_group <= k < last_group, and no cell of a returned   *)
(* matrix has magnitude 1.                                                 *)
(***************************************************************************)
C34_FullyReducedOutput ==
    /\ pc \in {"elim", "scan", "feed"} =>
           \A k \in Processed : FullyReduced(cplx_matrices[k])
    /\ pc = "feed" =>
           \A k \in first_group..(last_group - 1) :
               /\ Materialized(cplx_matrices, k)
               /\ FullyReduced(cplx_matrices[k])
    /\ pc = "done" =>
           \A g \in 0..(args.c_size - 2) :
               \A i \in 1..ReturnedRank(g + 1), j \in 1..ReturnedRank(g) :
                   ABSFUNC(ReturnedCell(g, i, j)) # 1

\* a reduce is about to return after eliminations for its last group, and
\* the first boundary matrix still holds an entry in a row that is not
\* deleted
C34_Witness ==
    /\ pc = "feed"
    /\ first_group = 0
    /\ last_group = 2
    /\ num_generators[2] < complex.ranks[3]
    /\ \E r \in RowIds(cplx_matrices[0]) :
          cplx_matrices[0].rows[r].num_entries > 0

(***************************************************************************)
(* Live counts.                                                            *)
(***************************************************************************)
\* the number of vectors of the family that are not deleted
LiveCount(vecs) == Cardinality({i \in 1..Len(vecs) : ~IsDeleted(vecs[i])})

\* num_generators[g] is what the matrices next to group g say
CountsAgree(g) ==
    /\ (g > first_group /\ Materialized(cplx_matrices, g - 1)) =>
           num_generators[g] = LiveCount(cplx_matrices[g - 1].rows)
    /\ (g < last_group /\ Materialized(cplx_matrices, g)) =>
           num_generators[g] = LiveCount(cplx_matrices[g].columns)
    /\ 0 <= num_generators[g]
    /\ num_generators[g] <= cplx_group_ranks[g]

(***************************************************************************)
(* C35.  Live-count consistency: between eliminations and when reduce      *)
(* comes to return, for every group g from first_group to last_group,      *)
(* num_generators[g] is the number of rows of D[g-1] that are not          *)
(* tombstoned (g > first_group, D[g-1] materialized) and the number of     *)
(* columns of D[g] that are not tombstoned (g < last_group, D[g]           *)
(* materialized), and lies between 0 and the rank of the group; reduce     *)
(* never reports 'matrix is corrupt'.                                      *)
(***************************************************************************)
C35_LiveCountConsistency ==
    /\ pc \in {"elim", "scan", "feed"} =>
           \A g \in first_group..last_group : CountsAgree(g)
    /\ ERR_MESSAGE # MatrError

\* reduce is about to return a complex of three groups in which the middle
\* group has lost some of its generators but not all, to eliminations for
\* both of its neighbours' matrices
C35_Witness ==
    /\ pc = "feed"
    /\ first_group = 0
    /\ last_group = 2
    /\ num_generators[1] > 0
    /\ num_generators[0] < cplx_group_ranks[0]
    /\ num_generators[2] < cplx_group_ranks[2]
    /\ LiveCount(cplx_matrices[0].rows) = num_generators[1]
    /\ LiveCount(cplx_matrices[1].columns) = num_generators[1]

(***************************************************************************)
(* Termination.  reduce_s_complex_U is a sequential program: whenever it   *)
(* can take a step it takes one.                                           *)
(***************************************************************************)
\* weak fairness of EnterEliminate and of ScanRow, WF_vars(A) written out as
\* []<>~ENABLED <<A>>_vars \/ []<><<A>>_vars: each is enabled exactly where
\* its guard holds, and every step it takes changes pc or gen
EnterEliminateFair == []<>(pc # "elim") \/ []<><<pc = "elim">>_vars

ScanRowFair ==
    \/ []<>~(pc = "scan" /\ gen <= cplx_group_ranks[group])
    \/ []<><<pc = "scan" /\ gen <= cplx_group_ranks[group]>>_vars

SpecL ==
    /\ SpecR
    /\ WF_vars(Start)
    /\ EnterEliminateFair
    /\ ScanRowFair
    /\ WF_vars(LeaveEliminate)
    /\ WF_vars(Feed)

\* reduce has returned its answer or has ended in an error
Finished == pc \in {"done", "error", "undefined"}

\* the eliminations performed so far for the group in progress
EliminationsForGroup == cplx_group_ranks[group] - num_generators[group]

Smaller(a, b) == IF a < b THEN a ELSE b

(***************************************************************************)
(* C36.  Termination: reduce eventually returns or fails.  Every round of  *)
(* eliminate_gens moves on to the next generator, so every call ends; a    *)
(* call reports progress only after a round that has lowered               *)
(* num_generators of group and of group - 1, and no round raises a count;  *)
(* the number of eliminations for a group is at most the smaller of the    *)
(* ranks of the group and of the group before it.                          *)
(***************************************************************************)
C36_Termination ==
    /\ <>Finished
    /\ [](pc \in {"elim", "scan"} =>
            /\ pc = "scan" => gen <= cplx_group_ranks[group] + 1
            /\ EliminationsForGroup
                 <= Smaller(cplx_group_ranks[group - 1],
                            cplx_group_ranks[group]))
    /\ [][/\ (pc = "scan" /\ pc' = "scan") => gen' = gen + 1
          /\ (pc = "scan" /\ pc' \in {"elim", "scan", "feed"}) =>
                /\ \A g \in DOMAIN num_generators :
                       num_generators'[g] <= num_generators[g]
                /\ (isfound' /\ ~isfound) =>
                       /\ num_generators'[group] < num_generators[group]
                       /\ num_generators'[group - 1]
                            < num_generators[group - 1]
                /\ ~isfound' => num_generators' = num_generators]_vars

\* reduce has returned after eliminating in both passes over the rows of
\* D[0] and for the last group as well
C36_Witness ==
    /\ pc = "done"
    /\ args.c_size = 3
    /\ ReturnedRank(0) < complex.ranks[1]
    /\ ReturnedRank(2) < complex.ranks[3]
    /\ ReturnedRank(1) > 0

(***************************************************************************)
(* Euler characteristic.                                                   *)
(***************************************************************************)
\* the alternating sum of count[1], ..., count[n], the first group (group 0
\* of the code) taken with sign +
RECURSIVE AlternatingSum(_, _)
AlternatingSum(count, n) ==
    IF n = 0 THEN 0
    ELSE AlternatingSum(count, n - 1)
         + (IF n % 2 = 1 THEN count[n] ELSE -count[n])

InputEuler == AlternatingSum(complex.ranks, Len(complex.ranks))

(***************************************************************************)
(* C37.  The Euler characteristic is invariant: between eliminations, and  *)
(* in the ranks reduce returns, the alternating sum of the live counts is  *)
(* the alternating sum of the ranks of the input.                          *)
(***************************************************************************)
C37_EulerCharacteristic ==
    /\ pc \in {"elim", "scan", "feed"} =>
           AlternatingSum([g \in 1..cplx_size |-> num_generators[g - 1]],
                          cplx_size) = InputEuler
    /\ pc = "done" =>
           AlternatingSum(answer[1], args.c_size) = InputEuler

\* reduce has returned fewer generators than it was given in each of three
\* groups, and not all of them have gone
C37_Witness ==
    /\ pc = "done"
    /\ args.c_size = 3
    /\ \A g \in 0..2 : ReturnedRank(g) < complex.ranks[g + 1]
    /\ \E g \in 0..2 : ReturnedRank(g) > 0

(***************************************************************************)
(* Aliased operands.  The call record c is an add_rows(r, r, s) or an      *)
(* add_cols(c, c, s): source and target are the same vector.               *)
(***************************************************************************)
Aliased(c) == c.op \in AddOps /\ c.i = c.j

\* m2 is what the aliased call c makes of m: every entry v of the vector is
\* v + s*v, absent when that is zero, in both views; every other cell is as
\* it was; and the matrix is consistent and well formed
AliasedResult(m, m2, c) ==
    /\ IsDenseResult(m, m2, c)
    /\ Bilateral(m2)
    /\ \A vec \in AllVectors(m2) : WellFormed(vec)
    /\ (\A k \in 1..Len(Others(m, c.op)) : is_zero(ExactSum(m, c, k))) =>
           Family(m2, c.op)[c.i] = EmptyVector

(***************************************************************************)
(* C38.  Aliased operands: a successful add_rows(r, r, s) or               *)
(* add_cols(c, c, s) on a live vector replaces every entry v of the vector *)
(* by v + s*v, empties the vector when every v + s*v is zero, and keeps    *)
(* bilateral consistency, strictly ascending order and correct counts.     *)
(***************************************************************************)
C38_AliasedOperands ==
    [][(/\ Aliased(last')
        /\ ~failed
        /\ LiveOperands(matr, last')
        /\ last'.ret # -1)
       => AliasedResult(matr, matr', last')]_vars

(***************************************************************************)
(* C38, what does hold: when no entry, product or sum of the call exceeds  *)
(* the magnitude bound, the aliased call succeeds and does all of the      *)
(* above.                                                                  *)
(***************************************************************************)
C38_AliasedOperandsInBounds ==
    [][(/\ Aliased(last')
        /\ ~failed
        /\ LiveOperands(matr, last')
        /\ NoValueExceeds(matr, last'))
       => (last'.ret # -1 /\ AliasedResult(matr, matr', last'))]_vars

====
